---- MODULE Spec2Model ----
(***************************************************************************)
(* FocusFlow job pipeline (src/main/main.py): the AppState job store, its  *)
(* event handlers and the pipeline generators they drive.                  *)
(*                                                                         *)
(* A handler is a Python generator: it runs without interruption up to its *)
(* next yield, and other handlers may run while it is suspended there.     *)
(* Job records are Python dicts: `heap` holds the dict objects, `jobs`     *)
(* (self.jobs) is the list of references to them, and a suspended          *)
(* generator keeps its own reference `j` to the dict it fetched when it    *)
(* started.                                                                *)
(*                                                                         *)
(* Granularity.  A generator can be overtaken at the yield that follows    *)
(* each status write and each stage's opening line; the further yields     *)
(* inside a stage (resolver strategies, download progress, upload / create *)
(* / poll, the summarizer's outcome line) follow statements that touch the *)
(* store only by appending a narrative log line, and the action of the     *)
(* stage appends those lines in order in one step.  Log lines are kept as  *)
(* their class (see Line).                                                 *)
(***************************************************************************)
EXTENDS Integers, Sequences, FiniteSets, TLC

\* ---------------------------------------------------------------- bounds
MaxJobs == 2
MaxEvents == 2
MaxChunks == 0
MaxPolls == 0

VARIABLES
    env,             \* os.environ: which credentials are present
    jobs,            \* AppState.jobs: list of references into heap
    heap,            \* the job dicts, by reference
    disk,            \* data/jobs.json
    files,           \* data/files: the set of artifact files <<job id, ext>>
    current_job_id,  \* AppState.current_job_id (0 is the empty string)
    procs,           \* the generators, one slot per handler invocation
    issued,          \* how many job ids add_job has drawn
    nev,             \* how many handlers have been invoked
    st               \* the frame of the one stage generator a stage-level
                     \* specification steps through (NoStage elsewhere)

vars == <<env, jobs, heap, disk, files, current_job_id, procs, issued, nev, st>>

\* ---------------------------------------------------------------- values
U_MP3 == "https://example.com/a.mp3"
U_PLAUD == "https://web.plaud.ai/share/abc123"
D_MP3 == "https://s3.example.com/rec/abc123.mp3?sig=1"
\* a share page without the /share/<token> segment, and a link to another
\* host whose path holds the text plaud.ai
U_PLAUD_PAGE == "https://web.plaud.ai/s/abc123"
U_DECOY == "https://example.com/plaud.ai/a.mp3"

Urls == {U_MP3, U_PLAUD}

\* The text of a URL, cut into the pieces the code's substring and regex
\* tests look for: [host, rest], each a sequence of pieces.
UrlParts(url) ==
    IF url = U_MP3 THEN [host |-> <<"example.com">>, rest |-> <<"/a", ".mp3">>]
    ELSE IF url = U_PLAUD
    THEN [host |-> <<"web.", "plaud.ai">>, rest |-> <<"/share/", "abc123">>]
    ELSE IF url = D_MP3
    THEN [host |-> <<"s3.example.com">>, rest |-> <<"/rec/abc123", ".mp3", "?sig=1">>]
    ELSE IF url = U_PLAUD_PAGE
    THEN [host |-> <<"web.", "plaud.ai">>, rest |-> <<"/s/abc123">>]
    ELSE IF url = U_DECOY
    THEN [host |-> <<"example.com">>, rest |-> <<"/", "plaud.ai", "/a", ".mp3">>]
    ELSE [host |-> <<>>, rest |-> <<>>]

UrlText(url) == UrlParts(url).host \o UrlParts(url).rest

\* `piece in url`
InUrl(piece, url) == \E i \in 1..Len(UrlText(url)) : UrlText(url)[i] = piece

\* the host of the URL is plaud.ai or below it
HostIsPlaud(url) ==
    LET h == UrlParts(url).host IN h # <<>> /\ h[Len(h)] = "plaud.ai"

NoStage == [stage |-> "none"]

CTypes == {"audio/mpeg", "application/octet-stream", "text/html"}

NoFile == <<>>
NoTitle == <<>>

ActiveStatuses == {"running", "downloading", "transcribing", "summarizing"}
Statuses == {"queued", "completed", "error"} \cup ActiveStatuses

E_HTTP == "HTTPError: 404 Client Error"
E_CTYPE == "RuntimeError: URL did not resolve to audio content-type"
E_STREAM == "ChunkedEncodingError: Connection broken"
E_TRANSCRIBE == "RuntimeError: transcription failed"
E_SUMMARIZE == "OSError: summarizer"
E_NOFILE == "FileNotFoundError: No such file or directory"

\* A log line is kept as its class: the ERROR lines, the 'No transcript
\* available' line, and every other (narrative) line.
Line(msg) ==
    IF msg \in {"ERROR: " , "ERROR: summarize: "} THEN "ERROR"
    ELSE IF msg = "No transcript available -> cannot summarize" THEN msg
    ELSE "log"

\* ---------------------------------------------------------------- records
NewJob(id, url, now) ==
    [ id |-> id, url |-> url, status |-> "queued", created_at |-> now,
      created_label |-> now, title |-> NoTitle, path |-> id, error |-> "",
      file_path |-> NoFile, transcript |-> "", summary |-> 0, logs |-> <<>>,
      resolved_url |-> "" ]

\* a dict no reference reaches any more
Freed == NewJob(0, "", 0)

Idle ==
    [ kind |-> "none", pc |-> "none", origin |-> "", jid |-> 0, j |-> 0,
      resolved |-> "", path |-> NoFile, text |-> "", exit |-> "" ]

\* a generator that has ended: by returning, by raising into its handler's
\* except branch, or at once because its guard refused
Finished(kind, exit) == [Idle EXCEPT !.kind = kind, !.pc = "done", !.exit = exit]

\* a handler that returned before its first yield, called for job id
Refused(kind, id) == [Finished(kind, "refused") EXCEPT !.jid = id]

\* dict.update(f)
Upd(rec, f) == [k \in DOMAIN rec |-> IF k \in DOMAIN f THEN f[k] ELSE rec[k]]

\* j.update(f) / j[k] = v on the dict behind reference r
Write(h, r, f) == IF r = 0 THEN h ELSE [h EXCEPT ![r] = Upd(@, f)]

\* variant lookup that takes the head of the list whatever the id
GetJobHead(js, h, id) == IF js = <<>> THEN 0 ELSE js[1]

\* AppState._get_job: the first record of self.jobs with that id, or None (0)
GetJob(js, h, id) ==
    LET hits == {i \in 1..Len(js) : h[js[i]].id = id}
    IN IF hits = {} THEN 0
       ELSE js[CHOOSE i \in hits : \A k \in hits : i <= k]

\* AppState._save: json.dump(self.jobs) over data/jobs.json
Save(js, h) == [exists |-> TRUE, content |-> [i \in 1..Len(js) |-> h[js[i]]]]

\* variant _append_log that keeps only the newest line
AppendLogOverwrites(h, js, id, msg) ==
    LET r == GetJob(js, h, id)
    IN IF r = 0 THEN h ELSE [h EXCEPT ![r].logs = <<Line(msg)>>]

\* AppState._append_log without its trailing _save
AppendLog(h, js, id, msg) ==
    LET r == GetJob(js, h, id)
    IN IF r = 0 THEN h ELSE [h EXCEPT ![r].logs = Append(@, Line(msg))]

\* several _append_log calls in a row
AppendLogs(h, js, id, msgs) ==
    LET r == GetJob(js, h, id)
    IN IF r = 0 THEN h
       ELSE [h EXCEPT ![r].logs = @ \o [i \in 1..Len(msgs) |-> Line(msgs[i])]]

\* the snapshot after a segment that ends in _append_log: _append_log saves
\* only when it finds the job; `direct` says the segment also called _save
AfterLog(js, h, id, direct, d) ==
    IF direct \/ GetJob(js, h, id) # 0 THEN Save(js, h) ELSE d

\* Python frees a dict once neither self.jobs nor a generator refers to it
Collect(h, js, ps) ==
    LET live == {js[i] : i \in 1..Len(js)} \cup {ps[p].j : p \in DOMAIN ps}
    IN [r \in 1..Len(h) |-> IF r \in live THEN h[r] ELSE Freed]

Busy == \E p \in DOMAIN procs : procs[p].pc = "call_run"

StatusOf(id) ==
    LET r == GetJob(jobs, heap, id) IN IF r = 0 THEN "absent" ELSE heap[r].status

\* ---------------------------------------------------------------- Init
Init ==
    /\ env \in [asm : BOOLEAN, gpt : BOOLEAN]
    /\ jobs = <<>>
    /\ heap = <<>>
    /\ disk = [exists |-> FALSE, content |-> <<>>]
    /\ files = {}
    /\ current_job_id = 0
    /\ procs = [p \in 1..MaxEvents |-> Idle]
    /\ issued = 0
    /\ nev = 0
    /\ st = NoStage

\* a handler is invoked: it takes the next generator slot
Invoke ==
    /\ ~Busy
    /\ nev < MaxEvents
    /\ nev' = nev + 1
    /\ st' = st

\* a suspended generator p is resumed
Resume(p) ==
    /\ ~Busy
    /\ nev' = nev
    /\ st' = st

\* ---------------------------------------------------------------- add_job
\* variant insert that puts the new record last
InsertLast(js, r) == js \o <<r>>

\* self.jobs.insert(0, job)
InsertFirst(js, r) == <<r>> \o js

AddJobEmpty ==
    /\ Invoke
    /\ UNCHANGED <<env, jobs, heap, disk, files, current_job_id, procs, issued>>

AddJob(url) ==
    /\ Invoke
    /\ issued < MaxJobs
    /\ LET id == issued + 1
           r == Len(heap) + 1
           h == Append(heap, NewJob(id, url, id))
       IN /\ issued' = id
          /\ jobs' = InsertFirst(jobs, r)
          /\ current_job_id' = id
          /\ procs' = [procs EXCEPT ![nev + 1] =
                 [Idle EXCEPT !.kind = "run", !.pc = "call_run",
                              !.origin = "add_job", !.jid = id]]
          /\ heap' = Collect(h, jobs', procs')
          /\ disk' = Save(jobs', heap')
    /\ UNCHANGED <<env, files>>

\* ---------------------------------------------------------------- run_job
\* variant guard that tests for "running" alone
RunGuardRunningOnly(status) == status # "running"

RunGuard(status) == status \notin ActiveStatuses

\* run_job up to its first yield, for generator slot p
RunEntry(p, id, origin) ==
    LET r == GetJob(jobs, heap, id)
    IN IF r # 0 /\ RunGuard(heap[r].status)
       THEN LET h1 == Write(heap, r, [status |-> "running"])
                h2 == AppendLog(h1, jobs, id, "Starting pipeline")
            IN /\ procs' = [procs EXCEPT ![p] =
                      [Idle EXCEPT !.kind = "run", !.pc = "started",
                                   !.origin = origin, !.jid = id, !.j = r]]
               /\ heap' = Collect(h2, jobs, procs')
               /\ disk' = Save(jobs, heap')
       ELSE /\ procs' = [procs EXCEPT ![p] = Refused("run", id)]
            /\ heap' = Collect(heap, jobs, procs')
            /\ disk' = disk

\* `yield from self.run_job(id)` at the end of add_job, retry_current, retry_job
RunStart(p) ==
    /\ procs[p].pc = "call_run"
    /\ nev' = nev
    /\ st' = st
    /\ RunEntry(p, procs[p].jid, procs[p].origin)
    /\ UNCHANGED <<env, jobs, files, current_job_id, issued>>

RunJob(id) ==
    /\ Invoke
    /\ RunEntry(nev + 1, id, "run_job")
    /\ UNCHANGED <<env, jobs, files, current_job_id, issued>>

\* a resumed generator p ends its segment: h is the heap it leaves, `direct`
\* whether it called _save itself, f the artifact files, pr its new position
Commit(p, h, direct, f, pr) ==
    /\ Resume(p)
    /\ procs' = [procs EXCEPT ![p] = pr]
    /\ heap' = Collect(h, jobs, procs')
    /\ disk' = AfterLog(jobs, h, procs[p].jid, direct, disk)
    /\ files' = f
    /\ UNCHANGED <<env, jobs, current_job_id, issued>>

At(p, kind, pcs) == procs[p].kind = kind /\ procs[p].pc \in pcs

\* run_job's except branch: status error, the message, _save, the ERROR line
RunFail(p, h, f, err) ==
    LET h1 == Write(h, procs[p].j, [status |-> "error", error |-> err])
        h2 == AppendLog(h1, jobs, procs[p].jid, "ERROR: ")
    IN Commit(p, h2, TRUE, f, Finished("run", "raised"))

\* ---------------------------------------------------------------- resolve
\* `"plaud.ai" not in url` (line 56), negated
IsPlaud(url) == InUrl("plaud.ai", url)

\* re.search(r"/share/([0-9a-zA-Z]+)", url): the piece after /share/, or ""
ShareToken(url) ==
    LET t == UrlText(url)
        at == {i \in 1..(Len(t) - 1) : t[i] = "/share/"}
    IN IF at = {} THEN "" ELSE t[(CHOOSE i \in at : \A k \in at : i <= k) + 1]

\* What one run of the strategies logs and returns: [lines, val].
PageTrails(url) ==
    { [lines |-> <<"Plaud resolved (html)">>, val |-> D_MP3],
      [lines |-> <<"Plaud resolved (next)">>, val |-> D_MP3],
      [lines |-> <<"Plaud resolved (json)">>, val |-> D_MP3],
      [lines |-> <<"Plaud resolution error; using original URL">>, val |-> url],
      [lines |-> <<"Plaud resolution failed; using original URL">>, val |-> url] }

Prefixed(line, trails) ==
    {[lines |-> <<line>> \o t.lines, val |-> t.val] : t \in trails}

ContentTrails(url) ==
    {[lines |-> <<"Plaud content API resolved">>, val |-> D_MP3]}
    \cup Prefixed("Plaud content API failed", PageTrails(url))
    \cup PageTrails(url)

TempTrails(url) ==
    { [lines |-> <<"Plaud API resolved (temp)">>, val |-> D_MP3],
      [lines |-> <<"Plaud API resolved (regex)">>, val |-> D_MP3] }
    \cup Prefixed("Plaud temp API failed", ContentTrails(url))
    \cup ContentTrails(url)

ResolveTrails(url) ==
    IF ShareToken(url) # "" THEN TempTrails(url) ELSE PageTrails(url)

\* resolve_plaud_audio_url up to its first yield, for a Plaud link
ResolveBegin(p) ==
    /\ At(p, "run", {"started"})
    /\ IsPlaud(heap[procs[p].j].url)
    /\ Commit(p, AppendLog(heap, jobs, procs[p].jid, "Resolving Plaud link ..."),
              FALSE, files, [procs[p] EXCEPT !.pc = "resolving"])

\* ---------------------------------------------------------------- download
\* run_job lines 762-769: the resolver returns (at once for a plain URL, after
\* its strategies for a Plaud link); download_audio_file runs to its first yield
BeginDownload(p) ==
    /\ At(p, "run", {"started", "resolving"})
    /\ procs[p].pc = "started" <=> ~IsPlaud(heap[procs[p].j].url)
    /\ LET url == heap[procs[p].j].url
           trails == IF procs[p].pc = "started" THEN {[lines |-> <<>>, val |-> url]}
                     ELSE ResolveTrails(url)
       IN \E t \in trails :
            LET h0 == AppendLogs(heap, jobs, procs[p].jid, t.lines)
                h1 == Write(h0, procs[p].j,
                            [resolved_url |-> t.val, status |-> "downloading"])
                h2 == AppendLog(h1, jobs, procs[p].jid, "Downloading audio ...")
            IN Commit(p, h2, TRUE, files,
                      [procs[p] EXCEPT !.pc = "dl_begin", !.resolved = t.val])

\* the extension _guess_ext finds in the URL text, "" when none
UrlExt(url) ==
    IF InUrl(".mp3", url) THEN ".mp3"
    ELSE IF InUrl(".m4a", url) THEN ".m4a"
    ELSE IF InUrl(".wav", url) THEN ".wav"
    ELSE ""

\* _guess_ext
GuessExt(url, ctype) ==
    IF UrlExt(url) # "" THEN UrlExt(url)
    ELSE IF ctype = "audio/mpeg" THEN ".mp3"
    ELSE ".bin"

\* the content-type test of download_audio_file
AudioLike(url, ctype) ==
    \/ ctype \in {"audio/mpeg", "application/octet-stream"}
    \/ GuessExt(url, ctype) \in {".mp3", ".m4a", ".wav"}

Repeat(line, n) == [i \in 1..n |-> line]

\* download_audio_file after its first yield, and run_job lines 770-772: the
\* request, the content-type test, the file, c progress lines, the path
Download(p) ==
    /\ At(p, "run", {"dl_begin"})
    /\ \E ok \in BOOLEAN, ctype \in CTypes, broken \in BOOLEAN, c \in 0..MaxChunks :
         LET url == procs[p].resolved
             path == <<procs[p].jid, GuessExt(url, ctype)>>
             f == files \cup {path}
             h0 == AppendLogs(heap, jobs, procs[p].jid, Repeat("download: ", c))
         IN IF ~ok THEN c = 0 /\ ~broken /\ RunFail(p, heap, files, E_HTTP)
            ELSE IF ~AudioLike(url, ctype)
            THEN c = 0 /\ ~broken /\ RunFail(p, heap, files, E_CTYPE)
            ELSE IF broken THEN RunFail(p, h0, f, E_STREAM)
            ELSE LET h1 == Write(h0, procs[p].j, [file_path |-> path])
                     h2 == AppendLog(h1, jobs, procs[p].jid, "Downloaded to ")
                 IN Commit(p, h2, TRUE, f,
                           [procs[p] EXCEPT !.pc = "downloaded", !.path = path])

\* ---------------------------------------------------------------- transcribe
\* run_job lines 775-777: transcribe_with_assemblyai runs to its first yield
BeginTranscribe(p) ==
    /\ At(p, "run", {"downloaded"})
    /\ LET h1 == Write(heap, procs[p].j, [status |-> "transcribing"])
       IN IF ~env.asm
          THEN Commit(p, AppendLog(h1, jobs, procs[p].jid,
                                "ASSEMBLYAI_API_KEY not set -> skipping transcription"),
                      TRUE, files, [procs[p] EXCEPT !.pc = "tr_skip"])
          ELSE Commit(p, AppendLog(h1, jobs, procs[p].jid, "Uploading to AssemblyAI ..."),
                      TRUE, files, [procs[p] EXCEPT !.pc = "tr_upload"])

\* run_job lines 778-783: the transcriber has returned text (None is "")
SetTranscript(p, h, text) ==
    LET h1 == Write(h, procs[p].j, [transcript |-> text])
        h2 == AppendLog(h1, jobs, procs[p].jid,
                        IF text # "" THEN "Transcription complete: "
                        ELSE "Transcription skipped or failed; proceeding")
    IN Commit(p, h2, TRUE, files,
              [procs[p] EXCEPT !.pc = "transcribed", !.path = NoFile])

\* the transcriber returns None: no credential
TranscribeSkip(p) ==
    /\ At(p, "run", {"tr_skip"})
    /\ SetTranscript(p, heap, "")

\* What the service calls log and end in: upload, create, k polls that answer
\* a non-terminal status, then the terminal answer.
UploadLines == <<"Create transcript job with speaker diarization ...">>
CreateLines == UploadLines \o <<"Transcript id=; polling ...">>
PollLines(k) == CreateLines \o Repeat("transcribe: status=", k)

TranscribeTrails ==
    { [lines |-> <<>>, end |-> E_HTTP, text |-> ""],
      [lines |-> UploadLines, end |-> E_HTTP, text |-> ""] }
    \cup UNION { { [lines |-> PollLines(k), end |-> E_HTTP, text |-> ""],
                   [lines |-> PollLines(k + 1), end |-> E_TRANSCRIBE, text |-> ""],
                   [lines |-> PollLines(k + 1), end |-> "completed", text |-> "transcript"],
                   [lines |-> PollLines(k + 1), end |-> "completed", text |-> ""] }
                 : k \in 0..MaxPolls }

\* transcribe_with_assemblyai after its first yield: upload (it reads the
\* downloaded file), create, poll until completed or error
Transcribe(p) ==
    /\ At(p, "run", {"tr_upload"})
    /\ IF procs[p].path \notin files THEN RunFail(p, heap, files, E_NOFILE)
       ELSE \E t \in TranscribeTrails :
              LET h0 == AppendLogs(heap, jobs, procs[p].jid, t.lines)
              IN IF t.end = "completed" THEN SetTranscript(p, h0, t.text)
                 ELSE RunFail(p, h0, files, t.end)

\* ---------------------------------------------------------------- summarize
\* generate_title_from_summary: the title made from summary s
TitleOf(s) == <<s>>

SummaryFields(s) ==
    IF s # 0 THEN [summary |-> s, title |-> TitleOf(s)] ELSE [summary |-> 0]

\* run_job lines 792-800: the summarizer has returned s (0: None)
SetSummary(p, h, s) ==
    LET h1 == Write(h, procs[p].j, SummaryFields(s))
        h2 == AppendLog(h1, jobs, procs[p].jid,
                        IF s # 0 THEN "Summary complete: " ELSE "Summary skipped or failed")
    IN Commit(p, h2, TRUE, files, [procs[p] EXCEPT !.pc = "summarized"])

\* summarize_with_gpt up to its first yield (lines 363-387, outside its try)
SummarizerEnter(p, h, direct) ==
    IF ~env.gpt
    THEN Commit(p, AppendLog(h, jobs, procs[p].jid,
                             "OPENAI_* not set -> skipping summarization"),
                direct, files, [procs[p] EXCEPT !.pc = "sm_skip"])
    ELSE Commit(p, AppendLog(h, jobs, procs[p].jid,
                             "Calling GPT endpoint (Responses API, stream) ..."),
                direct, files, [procs[p] EXCEPT !.pc = "sm_call"])

\* run_job lines 786-791
BeginSummarize(p) ==
    /\ At(p, "run", {"transcribed"})
    /\ LET h1 == Write(heap, procs[p].j, [status |-> "summarizing"])
       IN IF heap[procs[p].j].transcript = "" THEN SetSummary(p, h1, 0)
          ELSE \E raises \in BOOLEAN :
                 IF raises THEN RunFail(p, h1, files, E_SUMMARIZE)
                 ELSE SummarizerEnter(p, h1, TRUE)

SummarizerAnswers == {"http_error", "exception", "empty", "text"}

SummarizerMsg(a) ==
    IF a = "http_error" THEN "GPT endpoint HTTP ; skipping"
    ELSE IF a = "exception" THEN "GPT error: ; skipping"
    ELSE IF a = "empty" THEN "GPT returned empty content"
    ELSE "GPT call complete"

\* summarize_with_gpt after its first yield: what it logs and returns for
\* generator p (0 is None; the text generator p obtains is named p)
SummarizerTrails(p) ==
    IF procs[p].pc = "sm_skip" THEN {[lines |-> <<>>, summ |-> 0]}
    ELSE {[lines |-> <<SummarizerMsg(a)>>, summ |-> IF a = "text" THEN p ELSE 0]
            : a \in SummarizerAnswers}

\* the summarizer finishes and returns inside run_job
Summarize(p) ==
    /\ At(p, "run", {"sm_skip", "sm_call"})
    /\ \E t \in SummarizerTrails(p) :
         SetSummary(p, AppendLogs(heap, jobs, procs[p].jid, t.lines), t.summ)

\* run_job lines 802-804
Complete(p) ==
    /\ At(p, "run", {"summarized"})
    /\ LET h1 == Write(heap, procs[p].j, [status |-> "completed"])
           h2 == AppendLog(h1, jobs, procs[p].jid, "Pipeline done.")
       IN Commit(p, h2, TRUE, files, Finished("run", "returned"))

\* ---------------------------------------------------------------- regenerate
\* variant reset that clears the transcript as retry_current does
RegenResetWithTranscript == [summary |-> 0, status |-> "summarizing", transcript |-> ""]

\* j["summary"] = ""; j["status"] = "summarizing"
RegenResetFields == [summary |-> 0, status |-> "summarizing"]

\* regenerate_summary_for / regenerate_summary up to the first yield
RegenEntry(id) ==
    LET r == GetJob(jobs, heap, id)
        slot == nev + 1
    IN IF r = 0
       THEN /\ procs' = [procs EXCEPT ![slot] = Refused("regen", id)]
            /\ heap' = Collect(heap, jobs, procs')
            /\ disk' = disk
       ELSE IF heap[r].transcript = ""
       THEN /\ procs' = [procs EXCEPT ![slot] = Refused("regen", id)]
            /\ heap' = Collect(AppendLog(heap, jobs, id,
                                   "No transcript available -> cannot summarize"),
                               jobs, procs')
            /\ disk' = Save(jobs, heap')
       ELSE LET h1 == Write(heap, r, RegenResetFields)
                h2 == AppendLog(h1, jobs, id, "Regenerating summary ...")
            IN /\ procs' = [procs EXCEPT ![slot] =
                      [Idle EXCEPT !.kind = "regen", !.pc = "rg_started",
                                   !.origin = "regenerate", !.jid = id, !.j = r,
                                   !.text = heap[r].transcript]]
               /\ heap' = Collect(h2, jobs, procs')
               /\ disk' = Save(jobs, heap')

RegenerateSummaryFor(id) ==
    /\ Invoke
    /\ RegenEntry(id)
    /\ UNCHANGED <<env, jobs, files, current_job_id, issued>>

RegenerateSummary ==
    /\ Invoke
    /\ IF current_job_id = 0
       THEN /\ procs' = [procs EXCEPT ![nev + 1] = Refused("regen", 0)]
            /\ UNCHANGED <<heap, disk>>
       ELSE RegenEntry(current_job_id)
    /\ UNCHANGED <<env, jobs, files, current_job_id, issued>>

\* the except branch of regenerate: status error, _save, the ERROR line
RegenFail(p) ==
    LET h1 == Write(heap, procs[p].j, [status |-> "error"])
        h2 == AppendLog(h1, jobs, procs[p].jid, "ERROR: summarize: ")
    IN Commit(p, h2, TRUE, files, Finished("regen", "raised"))

\* summarize_with_gpt is entered from regenerate
RegenSummarize(p) ==
    /\ At(p, "regen", {"rg_started"})
    /\ \E raises \in BOOLEAN :
         IF raises THEN RegenFail(p)
         ELSE SummarizerEnter(p, heap, FALSE)

\* the summarizer finishes and returns inside regenerate: summary, title,
\* status completed
RegenReturn(p) ==
    /\ At(p, "regen", {"sm_skip", "sm_call"})
    /\ \E t \in SummarizerTrails(p) :
         LET h0 == AppendLogs(heap, jobs, procs[p].jid, t.lines)
             h1 == Write(h0, procs[p].j, SummaryFields(t.summ))
             h2 == Write(h1, procs[p].j, [status |-> "completed"])
             h3 == AppendLog(h2, jobs, procs[p].jid,
                             IF t.summ # 0 THEN "Summary regenerated: "
                             ELSE "Summary regeneration returned empty")
         IN Commit(p, h3, TRUE, files, Finished("regen", "returned"))

\* ---------------------------------------------------------------- retry, clear
\* variant reset that keeps the logs
RetryKeepsLogs ==
    [status |-> "queued", error |-> "", transcript |-> "", summary |-> 0]

\* retry_current's j.update({...})
RetryCurrentFields ==
    [status |-> "queued", error |-> "", logs |-> <<>>, transcript |-> "", summary |-> 0]

RetryJobFields(rec) ==
    [status |-> "queued", error |-> "", logs |-> <<>>, summary |-> rec.summary]

\* a retry handler up to its `yield from self.run_job(id)`
RetryEntry(name, id, r, f) ==
    IF id = 0 \/ r = 0
    THEN /\ procs' = [procs EXCEPT ![nev + 1] = Refused("run", id)]
         /\ UNCHANGED <<heap, disk>>
    ELSE /\ procs' = [procs EXCEPT ![nev + 1] =
                [Idle EXCEPT !.kind = "run", !.pc = "call_run",
                             !.origin = name, !.jid = id]]
         /\ heap' = Collect(Write(heap, r, f), jobs, procs')
         /\ disk' = Save(jobs, heap')

RetryCurrent ==
    /\ Invoke
    /\ RetryEntry("retry_current", current_job_id,
                  GetJob(jobs, heap, current_job_id), RetryCurrentFields)
    /\ UNCHANGED <<env, jobs, files, current_job_id, issued>>

RetryJob(id) ==
    /\ Invoke
    /\ LET r == GetJob(jobs, heap, id)
       IN RetryEntry("retry_job", id, r,
                     IF r = 0 THEN RetryCurrentFields ELSE RetryJobFields(heap[r]))
    /\ UNCHANGED <<env, jobs, files, current_job_id, issued>>

ClearFields ==
    [logs |-> <<>>, transcript |-> "", summary |-> 0, error |-> "", status |-> "queued"]

Clear ==
    /\ Invoke
    /\ jobs' = IF current_job_id # 0 THEN jobs ELSE <<>>
    /\ heap' = Collect(Write(heap, GetJob(jobs, heap, current_job_id), ClearFields),
                       jobs', procs)
    /\ disk' = Save(jobs', heap')
    /\ UNCHANGED <<env, files, current_job_id, procs, issued>>

\* ---------------------------------------------------------------- hydrate, select
\* variant backfill that also takes the except branch of line 558 for every
\* record
BackfillBlanks(rec) ==
    [rec EXCEPT !.created_label = 0,
                !.path = IF rec.id # 0 /\ @ = 0 THEN rec.id ELSE @]

\* the backfill of created_label and path on load
Backfill(rec) ==
    [rec EXCEPT !.created_label = IF @ = 0 THEN rec.created_at ELSE @,
                !.path = IF rec.id # 0 /\ @ = 0 THEN rec.id ELSE @]

Hydrate ==
    /\ Invoke
    /\ IF disk.exists
       THEN LET n == Len(disk.content)
                loaded == [i \in 1..n |-> Backfill(disk.content[i])]
            IN /\ jobs' = [i \in 1..n |-> Len(heap) + i]
               /\ heap' = Collect(heap \o loaded, jobs', procs)
               /\ disk' = IF loaded # disk.content THEN Save(jobs', heap') ELSE disk
       ELSE UNCHANGED <<jobs, heap, disk>>
    /\ current_job_id' = IF Len(jobs') > 0 /\ current_job_id = 0
                         THEN heap'[jobs'[1]].id ELSE current_job_id
    /\ UNCHANGED <<env, files, procs, issued>>

SelectJob(id) ==
    /\ Invoke
    /\ current_job_id' = id
    /\ UNCHANGED <<env, jobs, heap, disk, files, procs, issued>>

\* ---------------------------------------------------------------- delete
\* a selection that is no job's id but the leading characters of every id
\* issued here (ids are 8 hex digits; any two may begin alike)
Stem == 0 - 1

\* the files DATA_DIR.glob(f"{jid}*") matches: those whose name begins with jid
Glob(f, jid) == {x \in f : jid \in {x[1], Stem}}

\* delete_current: unlink the recorded file_path and the globbed files (each
\* unlink may fail and is then only logged), drop the record, _save
DeleteEntry(jid) ==
    IF jid = 0 THEN UNCHANGED <<jobs, heap, disk, files, current_job_id>>
    ELSE LET r == GetJob(jobs, heap, jid)
             recorded == IF r # 0 /\ heap[r].file_path # NoFile
                         THEN {heap[r].file_path} \cap files ELSE {}
             targets == recorded \cup Glob(files, jid)
             keep == SelectSeq(jobs, LAMBDA x : heap[x].id # jid)
         IN /\ \E failed \in SUBSET targets : files' = (files \ targets) \cup failed
            /\ jobs' = keep
            /\ heap' = Collect(heap, jobs', procs)
            /\ current_job_id' = IF Len(keep) > 0 THEN heap[keep[1]].id ELSE 0
            /\ disk' = Save(jobs', heap')

DeleteCurrent ==
    /\ Invoke
    /\ DeleteEntry(current_job_id)
    /\ UNCHANGED <<env, procs, issued>>

DeleteById(id) ==
    /\ Invoke
    /\ IF id = 0 THEN current_job_id' = 0 /\ UNCHANGED <<jobs, heap, disk, files>>
       ELSE DeleteEntry(id)
    /\ UNCHANGED <<env, procs, issued>>

Next ==
    \/ AddJobEmpty
    \/ \E url \in Urls : AddJob(url)
    \/ \E p \in 1..MaxEvents : RunStart(p)
    \/ \E id \in 1..MaxJobs : RunJob(id)
    \/ RetryCurrent
    \/ \E id \in 1..MaxJobs : RetryJob(id)
    \/ RegenerateSummary
    \/ \E id \in 1..MaxJobs : RegenerateSummaryFor(id)
    \/ Clear
    \/ Hydrate
    \/ \E id \in 0..MaxJobs : SelectJob(id)
    \/ DeleteCurrent
    \/ \E id \in 0..MaxJobs : DeleteById(id)
    \/ \E p \in 1..MaxEvents : ResolveBegin(p)
    \/ \E p \in 1..MaxEvents : BeginDownload(p)
    \/ \E p \in 1..MaxEvents : Download(p)
    \/ \E p \in 1..MaxEvents : BeginTranscribe(p)
    \/ \E p \in 1..MaxEvents : TranscribeSkip(p)
    \/ \E p \in 1..MaxEvents : Transcribe(p)
    \/ \E p \in 1..MaxEvents : BeginSummarize(p)
    \/ \E p \in 1..MaxEvents : Summarize(p)
    \/ \E p \in 1..MaxEvents : Complete(p)
    \/ \E p \in 1..MaxEvents : RegenSummarize(p)
    \/ \E p \in 1..MaxEvents : RegenReturn(p)

Spec == Init /\ [][Next]_vars

\* ---------------------------------------------------------------- fair runs
\* The steps of the generator in slot p.  Reflex resumes a handler after each
\* yield, and every external call returns or fails, so a generator that can
\* take its next step takes it.
RunSteps(p) ==
    \/ RunStart(p)
    \/ ResolveBegin(p)
    \/ BeginDownload(p)
    \/ Download(p)
    \/ BeginTranscribe(p)
    \/ TranscribeSkip(p)
    \/ Transcribe(p)
    \/ BeginSummarize(p)
    \/ Summarize(p)
    \/ Complete(p)

\* pipeline runs next to hydrate, select_job and add_job for other jobs
NextLive ==
    \/ \E url \in Urls : AddJob(url)
    \/ \E id \in 1..MaxJobs : RunJob(id)
    \/ Hydrate
    \/ \E id \in 0..MaxJobs : SelectJob(id)
    \/ \E p \in 1..MaxEvents : RunSteps(p)

SpecLive == Init /\ [][NextLive]_vars /\ \A p \in 1..MaxEvents : WF_vars(RunSteps(p))

\* ---------------------------------------------------------------- warm start
\* The store as an earlier session left it: one job, run to completion with
\* both credentials present, loaded and selected.  (Spec reaches this store.)
WarmSummary == MaxEvents + 1

WarmJob ==
    [ NewJob(1, U_MP3, 1) EXCEPT
        !.status = "completed", !.resolved_url = U_MP3,
        !.file_path = <<1, ".mp3">>, !.transcript = "transcript",
        !.summary = WarmSummary, !.title = TitleOf(WarmSummary),
        !.logs = [i \in 1..12 |-> "log"] ]

InitWarm ==
    /\ env \in [asm : BOOLEAN, gpt : BOOLEAN]
    /\ jobs = <<1>>
    /\ heap = <<WarmJob>>
    /\ disk = Save(jobs, heap)
    /\ files = {<<1, ".mp3">>}
    /\ current_job_id = 1
    /\ procs = [p \in 1..MaxEvents |-> Idle]
    /\ issued = 1
    /\ nev = 0
    /\ st = NoStage

SpecWarm == InitWarm /\ [][Next]_vars

\* ---------------------------------------------------------------- selections
\* Two finished jobs with their audio files, and the handlers that set the
\* selection to whatever string they are given (select_job, goto_job,
\* load_job, delete_by_id) next to delete_current, clear and hydrate.
Selections == 0..MaxJobs \cup {Stem}

SecondJob ==
    [ NewJob(2, U_MP3, 2) EXCEPT
        !.status = "completed", !.resolved_url = U_MP3,
        !.file_path = <<2, ".mp3">>, !.logs = [i \in 1..6 |-> "log"] ]

InitSelect ==
    /\ env \in [asm : BOOLEAN, gpt : BOOLEAN]
    /\ jobs = <<2, 1>>
    /\ heap = <<WarmJob, SecondJob>>
    /\ disk = Save(jobs, heap)
    /\ files = {<<1, ".mp3">>, <<2, ".mp3">>}
    /\ current_job_id = 2
    /\ procs = [p \in 1..MaxEvents |-> Idle]
    /\ issued = 2
    /\ nev = 0
    /\ st = NoStage

\* goto_job (864-867): the selection is set, then the redirect
GotoJob(id) ==
    /\ Invoke
    /\ current_job_id' = id
    /\ UNCHANGED <<env, jobs, heap, disk, files, procs, issued>>

\* load_job (596-629): the list is loaded when empty, the selection is set
\* to the normalized id unless that is empty
LoadJob(id) ==
    /\ Invoke
    /\ IF jobs = <<>> /\ disk.exists
       THEN LET n == Len(disk.content)
                loaded == [i \in 1..n |-> Backfill(disk.content[i])]
            IN /\ jobs' = [i \in 1..n |-> Len(heap) + i]
               /\ heap' = Collect(heap \o loaded, jobs', procs)
               /\ disk' = IF loaded # disk.content THEN Save(jobs', heap') ELSE disk
       ELSE UNCHANGED <<jobs, heap, disk>>
    /\ current_job_id' = IF id # 0 THEN id ELSE current_job_id
    /\ UNCHANGED <<env, files, procs, issued>>

NextSelect ==
    \/ \E id \in Selections : SelectJob(id)
    \/ \E id \in Selections : GotoJob(id)
    \/ \E id \in Selections : LoadJob(id)
    \/ \E id \in Selections : DeleteById(id)
    \/ DeleteCurrent
    \/ Clear
    \/ Hydrate

SpecSelect == InitSelect /\ [][NextSelect]_vars

\* ---------------------------------------------------------------- ids as add_job draws them
\* add_job takes uuid.uuid4().hex[:8], a random value of 32 bits, and does
\* not look whether a listed job has it already: the draw is any id of the
\* id space.  The other handlers are taken from Next.
AddJobDrawn(url) ==
    /\ Invoke
    /\ issued < MaxJobs
    /\ \E id \in 1..MaxJobs :
         LET r == Len(heap) + 1
             h == Append(heap, NewJob(id, url, issued + 1))
         IN /\ issued' = issued + 1
            /\ jobs' = InsertFirst(jobs, r)
            /\ current_job_id' = id
            /\ procs' = [procs EXCEPT ![nev + 1] =
                   [Idle EXCEPT !.kind = "run", !.pc = "call_run",
                                !.origin = "add_job", !.jid = id]]
            /\ heap' = Collect(h, jobs', procs')
            /\ disk' = Save(jobs', heap')
    /\ UNCHANGED <<env, files>>

NextDrawn ==
    \/ \E url \in Urls : AddJobDrawn(url)
    \/ \E p \in 1..MaxEvents : RunStart(p)
    \/ RetryCurrent
    \/ Clear
    \/ Hydrate
    \/ DeleteCurrent
    \/ \E id \in 0..MaxJobs : DeleteById(id)
    \/ \E p \in 1..MaxEvents : ResolveBegin(p)
    \/ \E p \in 1..MaxEvents : BeginDownload(p)
    \/ \E p \in 1..MaxEvents : Download(p)
    \/ \E p \in 1..MaxEvents : BeginTranscribe(p)
    \/ \E p \in 1..MaxEvents : TranscribeSkip(p)
    \/ \E p \in 1..MaxEvents : BeginSummarize(p)
    \/ \E p \in 1..MaxEvents : Complete(p)

\* neither service is configured: transcription and summary are skipped
InitDrawn == Init /\ env = [asm |-> FALSE, gpt |-> FALSE]

SpecDrawn == InitDrawn /\ [][NextDrawn]_vars

\* ---------------------------------------------------------------- resolver, step by step
\* resolve_plaud_audio_url as its own generator: st holds its frame, the
\* log lines it has emitted (<<text, detail>>) and the requests it has made.
StoreVars == <<env, jobs, heap, disk, files, current_job_id, procs, issued, nev>>

ResolverUrls == {U_MP3, U_PLAUD, U_PLAUD_PAGE, U_DECOY}

\* what a request can fail with inside a strategy's try block
Failures == {"network", "http", "json"}

ResolveFrame(url) ==
    [stage |-> "resolve", pc |-> "call", url |-> url, lines |-> <<>>,
     calls |-> <<>>, val |-> "", page |-> {}]

InitResolve ==
    /\ Init
    /\ env = [asm |-> TRUE, gpt |-> TRUE]

\* log(line); yield None
StLog(f, text, detail) == [f EXCEPT !.lines = Append(@, <<text, detail>>)]

\* requests.get(...) against endpoint `what`
StCall(f, what) == [f EXCEPT !.calls = Append(@, what)]

\* log(...); yield None; return val
StReturn(f, text, val) == [StLog(f, text, val) EXCEPT !.pc = "returned", !.val = val]

\* variant except branch that lets the failure out of the resolver
UncaughtFailure(f, text, fail, next, val) == [f EXCEPT !.pc = "raised"]

\* an except branch of the resolver: log the failure, then go on with the
\* next strategy (lines 90-91, 110-111) or return the original URL (144-146)
CaughtFailure(f, text, fail, next, val) ==
    [StLog(f, text, fail) EXCEPT !.pc = next, !.val = val]

\* the caller starts the generator (st is free) for some URL
ResolveStart ==
    /\ st = NoStage
    /\ \E url \in ResolverUrls : st' = ResolveFrame(url)
    /\ UNCHANGED StoreVars

\* lines 56-68: the domain test, the opening line, the share token
ResolveCall ==
    /\ st.stage = "resolve" /\ st.pc = "call"
    /\ st' = IF ~IsPlaud(st.url)
             THEN [st EXCEPT !.pc = "returned", !.val = st.url]
             ELSE [StLog(st, "Resolving Plaud link ...", "") EXCEPT
                     !.pc = IF ShareToken(st.url) # "" THEN "temp" ELSE "page"]
    /\ UNCHANGED StoreVars

\* lines 69-91: share-file-temp; a URL under a known key, a media URL in the
\* text, neither, or a failure
ResolveTemp ==
    /\ st.stage = "resolve" /\ st.pc = "temp"
    /\ LET f == StCall(st, "share-file-temp")
       IN \E o \in {"key", "regex", "nomatch"} \cup Failures :
            st' = IF o = "key" THEN StReturn(f, "Plaud API resolved (temp)", D_MP3)
                  ELSE IF o = "regex" THEN StReturn(f, "Plaud API resolved (regex)", D_MP3)
                  ELSE IF o = "nomatch" THEN [f EXCEPT !.pc = "content"]
                  ELSE CaughtFailure(f, "Plaud temp API failed", o, "content", "")
    /\ UNCHANGED StoreVars

\* lines 93-111: share-content
ResolveContent ==
    /\ st.stage = "resolve" /\ st.pc = "content"
    /\ LET f == StCall(st, "share-content")
       IN \E o \in {"url", "none"} \cup Failures :
            st' = IF o = "url" THEN StReturn(f, "Plaud content API resolved", D_MP3)
                  ELSE IF o = "none" THEN [f EXCEPT !.pc = "page"]
                  ELSE CaughtFailure(f, "Plaud content API failed", o, "page", "")
    /\ UNCHANGED StoreVars

\* what the share page can hold: a raw media URL, a media URL inside
\* __NEXT_DATA__, a media URL under a JSON key
PageFinds == {"html", "next", "json"}

\* variant search that prefers the JSON keys and looks at raw URLs last
PageLast(has) ==
    IF "json" \in has THEN "json"
    ELSE IF "next" \in has THEN "next"
    ELSE IF "html" \in has THEN "html"
    ELSE "none"

\* lines 117-141: the first of the three searches that finds a URL
PageFirst(has) ==
    IF "html" \in has THEN "html"
    ELSE IF "next" \in has THEN "next"
    ELSE IF "json" \in has THEN "json"
    ELSE "none"

\* lines 113-149: the share page is fetched and searched; the request can
\* fail instead
ResolvePage ==
    /\ st.stage = "resolve" /\ st.pc = "page"
    /\ LET f == StCall(st, "page")
       IN \/ \E has \in SUBSET PageFinds :
               LET o == PageFirst(has)
                   g == [f EXCEPT !.page = has]
               IN st' = IF o = "html" THEN StReturn(g, "Plaud resolved (html)", D_MP3)
                        ELSE IF o = "next" THEN StReturn(g, "Plaud resolved (next)", D_MP3)
                        ELSE IF o = "json" THEN StReturn(g, "Plaud resolved (json)", D_MP3)
                        ELSE StReturn(g, "Plaud resolution failed; using original URL",
                                      st.url)
          \/ \E o \in Failures :
               st' = CaughtFailure(f, "Plaud resolution error; using original URL",
                                   o, "returned", st.url)
    /\ UNCHANGED StoreVars

NextResolve ==
    \/ ResolveStart
    \/ ResolveCall
    \/ ResolveTemp
    \/ ResolveContent
    \/ ResolvePage

SpecResolve == InitResolve /\ [][NextResolve]_vars

\* ---------------------------------------------------------------- delete, step by step
\* delete_current statement by statement (it has no yield before its end, so
\* no other handler runs in between): the store is the one an earlier
\* session left, with any of the job's artifact files present.
ArtifactNames == {<<1, ".mp3">>, <<1, ".bin">>, <<1, ".part">>}

InitDelete ==
    /\ InitWarm
    /\ env = [asm |-> TRUE, gpt |-> TRUE]

\* files may be left over from earlier downloads of the job
LeaveFiles ==
    /\ st = NoStage
    /\ nev = 0
    /\ \E f \in SUBSET ArtifactNames : f # files /\ files' = f
    /\ UNCHANGED <<env, jobs, heap, disk, current_job_id, procs, issued, nev, st>>

DeleteFrame(jid) ==
    [stage |-> "delete", pc |-> IF jid = 0 THEN "done" ELSE "recorded", jid |-> jid,
     todo |-> {}, tried |-> {}, listed |-> FALSE]

\* variant handler for a failed unlink that gives the whole delete up
UnlinkAborts(f, x) == [f EXCEPT !.pc = "raised"]

\* except around one unlink (lines 840-841, 848-849): log, go on
UnlinkFailed(f, x) == [f EXCEPT !.tried = @ \cup {x}, !.todo = @ \ {x}]

\* delete_by_id(id) / delete_current(): lines 860 and 829-831
DeleteCall ==
    /\ st = NoStage
    /\ \E id \in 0..MaxJobs :
         /\ current_job_id' = id
         /\ st' = DeleteFrame(id)
    /\ nev' = nev + 1
    /\ UNCHANGED <<env, jobs, heap, disk, files, procs, issued>>

\* lines 835-841: the recorded file_path, when it exists
DeleteRecorded ==
    /\ st.stage = "delete" /\ st.pc = "recorded"
    /\ LET r == GetJob(jobs, heap, st.jid)
           fp == IF r # 0 THEN heap[r].file_path ELSE NoFile
       IN IF fp # NoFile /\ fp \in files
          THEN \E ok \in BOOLEAN :
                 /\ files' = IF ok THEN files \ {fp} ELSE files
                 /\ st' = [(IF ok THEN [st EXCEPT !.tried = @ \cup {fp}]
                            ELSE UnlinkFailed(st, fp)) EXCEPT !.pc = "glob"]
          ELSE files' = files /\ st' = [st EXCEPT !.pc = "glob"]
    /\ UNCHANGED <<env, jobs, heap, disk, current_job_id, procs, issued, nev>>

\* line 845: DATA_DIR.glob(f"{jid}*"); when it raises the outer except
\* (850-851) logs and the handler goes on to the record
DeleteGlob ==
    /\ st.stage = "delete" /\ st.pc = "glob"
    /\ \E ok \in BOOLEAN :
         st' = IF ok /\ Glob(files, st.jid) # {}
               THEN [st EXCEPT !.pc = "unlink", !.todo = Glob(files, st.jid),
                               !.listed = TRUE]
               ELSE [st EXCEPT !.pc = "record", !.listed = TRUE]
    /\ UNCHANGED <<env, jobs, heap, disk, files, current_job_id, procs, issued, nev>>

\* lines 845-849: one file of the listing
DeleteUnlink ==
    /\ st.stage = "delete" /\ st.pc = "unlink"
    /\ \E x \in st.todo, ok \in BOOLEAN :
         LET f == IF ok THEN [st EXCEPT !.tried = @ \cup {x}, !.todo = @ \ {x}]
                  ELSE UnlinkFailed(st, x)
         IN /\ files' = IF ok THEN files \ {x} ELSE files
            /\ st' = IF f.pc = "unlink" /\ f.todo = {} THEN [f EXCEPT !.pc = "record"]
                     ELSE f
    /\ UNCHANGED <<env, jobs, heap, disk, current_job_id, procs, issued, nev>>

\* lines 853-857: drop the record, reselect, _save
DeleteRecord ==
    /\ st.stage = "delete" /\ st.pc = "record"
    /\ LET keep == SelectSeq(jobs, LAMBDA x : heap[x].id # st.jid)
       IN /\ jobs' = keep
          /\ heap' = Collect(heap, jobs', procs)
          /\ current_job_id' = IF Len(keep) > 0 THEN heap[keep[1]].id ELSE 0
          /\ disk' = Save(jobs', heap')
    /\ st' = [st EXCEPT !.pc = "done"]
    /\ UNCHANGED <<env, files, procs, issued, nev>>

NextDelete ==
    \/ LeaveFiles
    \/ DeleteCall
    \/ DeleteRecorded
    \/ DeleteGlob
    \/ DeleteUnlink
    \/ DeleteRecord

SpecDelete == InitDelete /\ [][NextDelete]_vars

\* ---------------------------------------------------------------- snapshot writes that fail
\* The handlers that run to their end without a yield, on a store an earlier
\* session left, with a data directory that can stop being writable.  st
\* holds: writable (open(JOBS_PATH, "w") and the dump succeed), torn (the
\* file was truncated by a write that then failed, so json.load raises),
\* unsaved (a _save has failed and none has succeeded since), op (the last
\* handler).
MaxPersistOps == 4

FailedJob ==
    [ NewJob(2, U_MP3, 2) EXCEPT
        !.status = "error", !.error = E_HTTP, !.resolved_url = U_MP3,
        !.logs = <<"log", "log", "ERROR">> ]

InitPersist ==
    /\ env = [asm |-> TRUE, gpt |-> TRUE]
    /\ jobs = <<2, 1>>
    /\ heap = <<WarmJob, FailedJob>>
    /\ disk = Save(jobs, heap)
    /\ files = {<<1, ".mp3">>}
    /\ current_job_id = 2
    /\ procs = [p \in 1..MaxEvents |-> Idle]
    /\ issued = 2
    /\ nev = 0
    /\ st = [stage |-> "persist", writable |-> TRUE, torn |-> FALSE,
             unsaved |-> FALSE, op |-> "none"]

\* the directory becomes read-only or full, or writable again
FsChange ==
    /\ st.stage = "persist"
    /\ st' = [st EXCEPT !.writable = ~@]
    /\ UNCHANGED StoreVars

\* _save (534-539) on the collection js: the except branch only logs
PersistSave(js, h, op) ==
    IF st.writable
    THEN /\ disk' = Save(js, h)
         /\ st' = [st EXCEPT !.torn = FALSE, !.unsaved = FALSE, !.op = op]
    ELSE /\ disk' = disk
         /\ \E truncated \in BOOLEAN :
              st' = [st EXCEPT !.torn = @ \/ truncated, !.unsaved = TRUE, !.op = op]

PersistInvoke ==
    /\ st.stage = "persist"
    /\ nev < MaxPersistOps
    /\ nev' = nev + 1
    /\ UNCHANGED <<env, procs, issued>>

\* clear (515-526)
PersistClear ==
    /\ PersistInvoke
    /\ jobs' = IF current_job_id # 0 THEN jobs ELSE <<>>
    /\ heap' = Collect(Write(heap, GetJob(jobs, heap, current_job_id), ClearFields),
                       jobs', procs)
    /\ PersistSave(jobs', heap', "clear")
    /\ UNCHANGED <<files, current_job_id>>

\* delete_by_id (859-863) with every unlink succeeding
PersistDelete(id) ==
    /\ PersistInvoke
    /\ LET keep == SelectSeq(jobs, LAMBDA x : heap[x].id # id)
       IN /\ jobs' = keep
          /\ heap' = Collect(heap, keep, procs)
          /\ current_job_id' = IF Len(keep) > 0 THEN heap[keep[1]].id ELSE 0
    /\ files' = files \ Glob(files, id)
    /\ PersistSave(jobs', heap', "delete")

\* the load of lines 543-548 (also 573-578, 603-609) followed by the
\* backfill and its _save
PersistLoad(op) ==
    IF ~disk.exists
    THEN UNCHANGED <<jobs, heap, disk>> /\ st' = [st EXCEPT !.op = op]
    ELSE IF st.torn
    THEN /\ jobs' = <<>>
         /\ heap' = Collect(heap, <<>>, procs)
         /\ disk' = disk
         /\ st' = [st EXCEPT !.op = op]
    ELSE LET n == Len(disk.content)
             loaded == [i \in 1..n |-> Backfill(disk.content[i])]
         IN /\ jobs' = [i \in 1..n |-> Len(heap) + i]
            /\ heap' = Collect(heap \o loaded, jobs', procs)
            /\ IF loaded # disk.content
               THEN PersistSave(jobs', heap', op)
               ELSE disk' = disk /\ st' = [st EXCEPT !.op = op]

\* hydrate (541-565)
PersistHydrate ==
    /\ PersistInvoke
    /\ PersistLoad("hydrate")
    /\ current_job_id' = IF Len(jobs') > 0 /\ current_job_id = 0
                         THEN heap'[jobs'[1]].id ELSE current_job_id
    /\ files' = files

\* load_job (596-629)
PersistLoadJob(id) ==
    /\ PersistInvoke
    /\ IF jobs = <<>>
       THEN PersistLoad("load_job")
       ELSE UNCHANGED <<jobs, heap, disk>> /\ st' = [st EXCEPT !.op = "load_job"]
    /\ current_job_id' = IF id # 0 THEN id ELSE current_job_id
    /\ files' = files

\* init_job_view (567-594)
PersistInitJobView(id) ==
    /\ PersistInvoke
    /\ IF jobs = <<>>
       THEN PersistLoad("init_job_view")
       ELSE UNCHANGED <<jobs, heap, disk>> /\ st' = [st EXCEPT !.op = "init_job_view"]
    /\ current_job_id' = id
    /\ files' = files

NextPersist ==
    \/ FsChange
    \/ PersistClear
    \/ \E id \in 1..MaxJobs : PersistDelete(id)
    \/ PersistHydrate
    \/ \E id \in 0..MaxJobs : PersistLoadJob(id)
    \/ \E id \in 0..MaxJobs : PersistInitJobView(id)

SpecPersist == InitPersist /\ [][NextPersist]_vars

\* ---------------------------------------------------------------- download, chunk by chunk
\* download_audio_file's loop, one chunk per step.  The clock counts ticks
\* of 50 ms; st holds the frame: bytes_done, last_emit, the last reading of
\* time.time() (now), the bytes written to the file (size) and the progress
\* lines logged so far, each <<bytes_done, now>>.
MaxDlChunks == 3
MaxChunkSize == 2
MaxTick == 3

\* 0.1 s (line 173) in ticks
Throttle == 2

\* time.time() when the request is made: seconds since 1970, far above 0.1
StartTime == 3

DownloadFrame ==
    [stage |-> "download", pc |-> "request", total |-> 0, bytes_done |-> 0,
     last_emit |-> 0, now |-> StartTime, size |-> 0, chunks |-> 0, lines |-> <<>>]

\* variant test that lets every chunk log
EmitDueAlways(now, last_emit) == now >= last_emit

\* line 173: if now - last_emit > 0.1
EmitDue(now, last_emit) == now - last_emit > Throttle

\* line 153: the first log line and yield
DownloadStart ==
    /\ st = NoStage
    /\ st' = DownloadFrame
    /\ UNCHANGED StoreVars

\* lines 155-166: the response (raise_for_status, content-length, the
\* content-type test), then open(path, "wb")
DownloadRespond ==
    /\ st.stage = "download" /\ st.pc = "request"
    /\ \E ok \in BOOLEAN, known \in BOOLEAN :
         st' = IF ok THEN [st EXCEPT !.pc = "chunks", !.total = IF known THEN 1 ELSE 0]
               ELSE [st EXCEPT !.pc = "raised"]
    /\ UNCHANGED StoreVars

\* lines 167-176: one chunk of n bytes read dt ticks after the last one
DownloadChunk ==
    /\ st.stage = "download" /\ st.pc = "chunks"
    /\ st.chunks < MaxDlChunks
    /\ \E n \in 0..MaxChunkSize, dt \in 0..MaxTick :
         LET now == st.now + dt
             done == st.bytes_done + n
         IN st' = IF n = 0 THEN [st EXCEPT !.chunks = @ + 1]
                  ELSE IF EmitDue(now, st.last_emit)
                  THEN [st EXCEPT !.chunks = @ + 1, !.size = @ + n, !.bytes_done = done,
                                  !.now = now, !.last_emit = now,
                                  !.lines = Append(@, <<done, now>>)]
                  ELSE [st EXCEPT !.chunks = @ + 1, !.size = @ + n, !.bytes_done = done,
                                  !.now = now]
    /\ UNCHANGED StoreVars

\* the stream breaks: iter_content raises
DownloadBroken ==
    /\ st.stage = "download" /\ st.pc = "chunks"
    /\ st' = [st EXCEPT !.pc = "raised"]
    /\ UNCHANGED StoreVars

\* line 177: the iterator is exhausted, the file is closed, the path returned
DownloadReturn ==
    /\ st.stage = "download" /\ st.pc = "chunks"
    /\ st' = [st EXCEPT !.pc = "returned"]
    /\ UNCHANGED StoreVars

NextDownload ==
    \/ DownloadStart
    \/ DownloadRespond
    \/ DownloadChunk
    \/ DownloadBroken
    \/ DownloadReturn

SpecDownload == InitResolve /\ [][NextDownload]_vars

\* ---------------------------------------------------------------- summarizer stream, event by event
\* summarize_with_gpt from its request on, one server-sent event per step.
\* A text is a sequence of characters over {"a", " "}; st holds the frame:
\* content (the buffer), seen (the events parsed so far), and at the end the
\* value returned (none for None).
MaxStreamEvents == 3

Texts == {<<>>, <<"a">>, <<" ">>, <<"a", " ">>, <<" ", "a">>}

\* the event shapes the parser tells apart (lines 423-468)
EventKinds ==
    {"output_text.delta", "response.output_text.delta", "output_text",
     "response.output_text", "response.output", "message.delta", "output", "other"}

DeltaKinds == {"output_text.delta", "response.output_text.delta"}

ReplaceKinds == {"output_text", "response.output_text"}

\* lines the parser passes over: no data: prefix (line 415), or a payload
\* that json.loads rejects (lines 419-422)
SkipKinds == {"noprefix", "malformed"}

\* what the body may still hold behind a [DONE] line: nothing, or a delta
TailTexts == {<<>>, <<"a">>}

\* variant of str.strip() that removes nothing
StripNothing(s) == s

\* str.strip()
Strip(s) ==
    LET inked == {i \in 1..Len(s) : s[i] # " "}
    IN IF inked = {} THEN <<>>
       ELSE SubSeq(s, CHOOSE i \in inked : \A k \in inked : i <= k,
                      CHOOSE i \in inked : \A k \in inked : i >= k)

StreamFrame ==
    [stage |-> "stream", pc |-> "post", content |-> <<>>, seen |-> <<>>,
     val |-> <<>>, none |-> FALSE, line |-> "", marker |-> FALSE, tail |-> <<>>]

\* one parsed event applied to the buffer (lines 423-468)
Apply(content, e) ==
    IF e.kind \in ReplaceKinds
    THEN IF e.text # <<>> THEN Strip(e.text) ELSE content
    ELSE IF e.kind \in {"other"} \cup SkipKinds THEN content
    ELSE content \o e.text

\* variant in which the loop reads on past [DONE]
MarkerIgnored(content, tail) == content \o tail

\* lines 417-418: break leaves what follows the marker unread
MarkerBreaks(content, tail) == content

\* line 387: the opening log line and yield
StreamStart ==
    /\ st = NoStage
    /\ st' = StreamFrame
    /\ UNCHANGED StoreVars

\* lines 388-406: the POST; a status >= 400 or an exception ends it with None
StreamPost ==
    /\ st.stage = "stream" /\ st.pc = "post"
    /\ \E o \in {"ok", "http", "exception"} :
         st' = IF o = "ok" THEN [st EXCEPT !.pc = "lines"]
               ELSE IF o = "http"
               THEN [st EXCEPT !.pc = "returned", !.none = TRUE,
                               !.line = "GPT endpoint HTTP ; skipping"]
               ELSE [st EXCEPT !.pc = "returned", !.none = TRUE,
                               !.line = "GPT error: ; skipping"]
    /\ UNCHANGED StoreVars

\* lines 407-462: one line of the body: a data: line holding a JSON event,
\* a line without the prefix, or a data: line whose payload is not JSON
StreamEvent ==
    /\ st.stage = "stream" /\ st.pc = "lines"
    /\ Len(st.seen) < MaxStreamEvents
    /\ \E k \in EventKinds \cup SkipKinds, t \in Texts :
         /\ k \in SkipKinds => t = <<"a">>
         /\ LET e == [kind |-> k, text |-> t]
            IN st' = [st EXCEPT !.content = Apply(@, e), !.seen = Append(@, e)]
    /\ UNCHANGED StoreVars

\* the connection breaks while iter_lines is read (lines 470-472)
StreamBroken ==
    /\ st.stage = "stream" /\ st.pc = "lines"
    /\ st' = [st EXCEPT !.pc = "returned", !.none = TRUE,
                        !.line = "GPT error: ; skipping"]
    /\ UNCHANGED StoreVars

\* lines 417-418 and 463-469: [DONE] (with or without lines behind it) or
\* the end of the body, the final strip, the closing line
StreamDone ==
    /\ st.stage = "stream" /\ st.pc = "lines"
    /\ \E marker \in BOOLEAN, tail \in TailTexts :
         /\ ~marker => tail = <<>>
         /\ LET content == Strip(MarkerBreaks(st.content, tail))
                f == [st EXCEPT !.pc = "returned", !.content = content,
                                !.marker = marker, !.tail = tail]
            IN st' = IF content = <<>>
                     THEN [f EXCEPT !.none = TRUE, !.line = "GPT returned empty content"]
                     ELSE [f EXCEPT !.val = content, !.line = "GPT call complete"]
    /\ UNCHANGED StoreVars

NextStream ==
    \/ StreamStart
    \/ StreamPost
    \/ StreamEvent
    \/ StreamBroken
    \/ StreamDone

SpecStream == InitResolve /\ [][NextStream]_vars

\* ---------------------------------------------------------------- transcribe, request by request
\* transcribe_with_assemblyai, one request per step.  st holds the frame:
\* the requests made (calls), the lines logged, the statuses the polls have
\* returned (seen), and how the generator ended.  The service answers the
\* poll numbered MaxTrPolls, at the latest, with completed or error.
MaxTrPolls == 4

PollStatuses == {"queued", "processing", "completed", "error"}

\* body.get("error", "unknown error") for a body with or without the field
ServiceErrors == {"bad audio", "unknown error"}

TranscribeFrame ==
    [stage |-> "transcribe", pc |-> "upload", calls |-> <<>>, lines |-> <<>>,
     seen |-> <<>>, err |-> <<>>, none |-> FALSE]

\* variant loop that goes on polling after the status error
PollAgainOnError(f, status, msg) ==
    IF status = "completed" THEN [f EXCEPT !.pc = "returned"] ELSE f

\* lines 217 and 225-256: what the loop does with the status just logged
PollOutcome(f, status, msg) ==
    IF status = "completed" THEN [f EXCEPT !.pc = "returned"]
    ELSE IF status = "error"
    THEN [f EXCEPT !.pc = "raised", !.err = <<"transcription failed: ", msg>>]
    ELSE f

\* lines 181-188: the key test and the first line
TranscribeStart ==
    /\ st = NoStage
    /\ st' = IF env.asm
             THEN [TranscribeFrame EXCEPT !.lines = <<"Uploading to AssemblyAI ...">>]
             ELSE [TranscribeFrame EXCEPT
                     !.pc = "returned", !.none = TRUE,
                     !.lines = <<"ASSEMBLYAI_API_KEY not set -> skipping transcription">>]
    /\ UNCHANGED StoreVars

\* lines 189-199: the upload; raise_for_status or the request can raise
TranscribeUpload ==
    /\ st.stage = "transcribe" /\ st.pc = "upload"
    /\ \E ok \in BOOLEAN :
         LET f == [st EXCEPT !.calls = Append(@, "upload")]
         IN st' = IF ok
                  THEN [f EXCEPT !.pc = "create",
                          !.lines = Append(@, "Create transcript job with speaker diarization ...")]
                  ELSE [f EXCEPT !.pc = "raised", !.err = <<"HTTPError", "upload">>]
    /\ UNCHANGED StoreVars

\* lines 200-215: the transcript job is created
TranscribeCreate ==
    /\ st.stage = "transcribe" /\ st.pc = "create"
    /\ \E ok \in BOOLEAN :
         LET f == [st EXCEPT !.calls = Append(@, "create")]
         IN st' = IF ok
                  THEN [f EXCEPT !.pc = "poll",
                          !.lines = Append(@, "Transcript id=; polling ...")]
                  ELSE [f EXCEPT !.pc = "raised", !.err = <<"HTTPError", "create">>]
    /\ UNCHANGED StoreVars

\* lines 217-256: one turn of the polling loop
TranscribePoll ==
    /\ st.stage = "transcribe" /\ st.pc = "poll"
    /\ \E ok \in BOOLEAN, status \in PollStatuses, msg \in ServiceErrors :
         /\ (ok /\ Len(st.seen) + 1 >= MaxTrPolls) => status \in {"completed", "error"}
         /\ LET f == [st EXCEPT !.calls = Append(@, "poll")]
                g == [f EXCEPT !.seen = Append(@, status),
                               !.lines = Append(@, <<"transcribe: status=", status>>)]
            IN st' = IF ok THEN PollOutcome(g, status, msg)
                     ELSE [f EXCEPT !.pc = "raised", !.err = <<"HTTPError", "poll">>]
    /\ UNCHANGED StoreVars

NextTranscribe ==
    \/ TranscribeStart
    \/ TranscribeUpload
    \/ TranscribeCreate
    \/ TranscribePoll

SpecTranscribe == Init /\ [][NextTranscribe]_vars /\ WF_vars(NextTranscribe)

\* ---------------------------------------------------------------- titles, character by character
\* generate_title_from_summary and extract_title_from_summary on summaries
\* that are sequences of characters, put together from at most MaxSegments
\* of the pieces below.  st holds the summary, the title returned and the
\* branch that produced it.
MaxSegments == 3

NL == "\n"

\* one of the key phrases of the first pattern (line 328)
Keyword == <<"T", "o", "p", "i", "c">>

Letters == {"T", "o", "p", "i", "c", "a"}

\* \s on this alphabet
Blank == {" ", NL}

Segments ==
    {Keyword, <<":">>, <<" ">>, <<NL>>, <<".">>, <<"#">>, <<"*", "*">>,
     Repeat("a", 11), Repeat("a", 51)}

\* what the chat completion may hold as message content (line 305)
ModelTitles ==
    {<<>>, <<"a">>, <<"\"", "a", "\"">>, <<"\"", "\"">>, Repeat("a", 60),
     Repeat("a", 61)}

DefaultTitle ==
    <<"M", "e", "e", "t", "i", "n", "g", " ", "S", "u", "m", "m", "a", "r", "y">>

\* the first index from i on whose character is outside cs (Len + 1 if none)
SkipWhile(s, i, cs) ==
    CHOOSE k \in i..(Len(s) + 1) :
        /\ k = Len(s) + 1 \/ s[k] \notin cs
        /\ \A m \in i..(k - 1) : s[m] \in cs

\* the first index from i on whose character is in cs (Len + 1 if none)
Until(s, i, cs) ==
    CHOOSE k \in i..(Len(s) + 1) :
        /\ k = Len(s) + 1 \/ s[k] \in cs
        /\ \A m \in i..(k - 1) : s[m] \notin cs

\* ^ under re.MULTILINE
LineStart(s, i) == i = 1 \/ s[i - 1] = NL

\* str.strip(chars)
StripChars(s, cs) ==
    LET kept == {i \in 1..Len(s) : s[i] \notin cs}
    IN IF kept = {} THEN <<>>
       ELSE SubSeq(s, CHOOSE i \in kept : \A k \in kept : i <= k,
                      CHOOSE i \in kept : \A k \in kept : i >= k)

\* line 324: re.sub(r'^#+\s*', '', summary, flags=re.MULTILINE)
\* (s from index i on, one match of the pattern per step)
RECURSIVE DropHeaders(_, _)
DropHeaders(s, i) ==
    LET heads == {p \in i..Len(s) : LineStart(s, p) /\ s[p] = "#"}
        p == CHOOSE p \in heads : \A k \in heads : p <= k
    IN IF heads = {} THEN SubSeq(s, i, Len(s))
       ELSE SubSeq(s, i, p - 1)
              \o DropHeaders(s, SkipWhile(s, SkipWhile(s, p, {"#"}), Blank))

\* re.sub(r'[*_#]', '', title)
Unmarked(t) == SelectSeq(t, LAMBDA c : c \notin {"*", "_", "#"})

\* lines 337-338 and 347-348
Limit(t) == IF Len(t) > 50 THEN SubSeq(t, 1, 47) \o <<".", ".", ".">> ELSE t

\* lines 336-339 and 346-349: the markers are removed, the length is cut
Cleaned(t) == Limit(Unmarked(t))

\* where group 1 of the first pattern starts for a key phrase at i (0: no
\* match there): [:\s]* gives characters back until [^\n.]+ can take one
TopicGroup(s, i) ==
    LET far == SkipWhile(s, i + 5, Blank \cup {":"})
        from == {j \in (i + 5)..far : j <= Len(s) /\ s[j] \notin {NL, "."}}
    IN IF i + 4 <= Len(s) /\ SubSeq(s, i, i + 4) = Keyword /\ from # {}
       THEN CHOOSE j \in from : \A k \in from : k <= j
       ELSE 0

\* line 328: the leftmost match of the first pattern, its group 1
TopicMatches(s) == {i \in 1..Len(s) : TopicGroup(s, i) # 0}

TopicTitle(s) ==
    LET i == CHOOSE i \in TopicMatches(s) : \A k \in TopicMatches(s) : i <= k
        j == TopicGroup(s, i)
    IN SubSeq(s, j, Until(s, j, {NL, "."}) - 1)

\* line 329: ^([A-Z][^.!?\n]{10,50}) under IGNORECASE and MULTILINE
SentenceMatches(s) ==
    {i \in 1..Len(s) :
        /\ LineStart(s, i) /\ s[i] \in Letters
        /\ Until(s, i + 1, {".", "!", "?", NL}) - (i + 1) >= 10}

SentenceTitle(s) ==
    LET i == CHOOSE i \in SentenceMatches(s) : \A k \in SentenceMatches(s) : i <= k
        run == Until(s, i + 1, {".", "!", "?", NL}) - (i + 1)
    IN SubSeq(s, i, i + (IF run > 50 THEN 50 ELSE run))

\* summary.split('\n')
RECURSIVE SplitLines(_)
SplitLines(s) ==
    LET k == Until(s, 1, {NL})
    IN IF k > Len(s) THEN <<s>>
       ELSE <<SubSeq(s, 1, k - 1)>> \o SplitLines(SubSeq(s, k + 1, Len(s)))

\* lines 342-351: the first of the first five lines longer than 10
LineTitle(s) ==
    LET lines == SplitLines(s)
        long == {n \in 1..Len(lines) : n <= 5 /\ Len(StripChars(lines[n], Blank)) > 10}
    IN IF long = {} THEN DefaultTitle
       ELSE Cleaned(StripChars(lines[CHOOSE n \in long : \A k \in long : n <= k], Blank))

\* extract_title_from_summary, lines 317-353
ExtractTitle(summary) ==
    IF summary = <<>> THEN <<>>
    ELSE LET s == DropHeaders(summary, 1)
         IN IF TopicMatches(s) # {} THEN Cleaned(StripChars(TopicTitle(s), Blank))
            ELSE IF SentenceMatches(s) # {} THEN Cleaned(StripChars(SentenceTitle(s), Blank))
            ELSE LineTitle(s)

\* the summaries of n pieces
RECURSIVE SummariesOf(_)
SummariesOf(n) ==
    IF n = 0 THEN {<<>>}
    ELSE {a \o b : a \in SummariesOf(n - 1), b \in Segments}

TitleFrame ==
    [stage |-> "title", pc |-> "request", summary |-> <<>>, title |-> <<>>, via |-> ""]

\* lines 261-266: the empty summary, and the extraction when no endpoint is
\* configured
GenerateTitle ==
    /\ st = NoStage
    /\ \E n \in 0..MaxSegments : \E summary \in SummariesOf(n) :
         st' = IF summary = <<>>
               THEN [TitleFrame EXCEPT !.pc = "returned", !.via = "empty"]
               ELSE IF ~env.gpt
               THEN [TitleFrame EXCEPT !.pc = "returned", !.summary = summary,
                       !.title = ExtractTitle(summary), !.via = "extract"]
               ELSE [TitleFrame EXCEPT !.summary = summary]
    /\ UNCHANGED StoreVars

\* lines 268-314: the chat completion, its answer, the fallback
GenerateTitleAnswer ==
    /\ st.stage = "title" /\ st.pc = "request"
    /\ \E o \in {"ok", "http", "exception"}, content \in ModelTitles :
         LET title == StripChars(StripChars(content, Blank), {"\"", "'"})
         IN st' = IF o = "ok" /\ title # <<>> /\ Len(title) <= 60
                  THEN [st EXCEPT !.pc = "returned", !.title = title, !.via = "model"]
                  ELSE [st EXCEPT !.pc = "returned", !.title = ExtractTitle(st.summary),
                                  !.via = "extract"]
    /\ UNCHANGED StoreVars

NextTitle ==
    \/ GenerateTitle
    \/ GenerateTitleAnswer

SpecTitle == Init /\ [][NextTitle]_vars

\* ---------------------------------------------------------------- properties
\* the record self.jobs holds for id (Freed when there is none)
Rec(id) == LET r == GetJob(jobs, heap, id) IN IF r = 0 THEN Freed ELSE heap[r]

Present(id) == GetJob(jobs, heap, id) # 0

\* a run_job generator between its start and its completed / error transition
ActiveRun(p) == procs[p].kind = "run" /\ procs[p].pc \notin {"none", "call_run", "done"}

\* generator p takes a step
Steps(p) == procs'[p] # procs[p]

StatusEdges ==
    {<<"queued", "running">>, <<"running", "downloading">>,
     <<"downloading", "transcribing">>, <<"transcribing", "summarizing">>,
     <<"summarizing", "completed">>}
    \cup (ActiveStatuses \X {"error"})
    \cup ({"error", "completed"} \X {"queued"})

\* C1: a job's status starts at queued and changes only along the edges of
\* the status graph (queued->running->downloading->transcribing->summarizing
\* ->completed, an active status->error, error/completed->queued, and any->
\* summarizing when the transcript is non-empty)
C1_StatusGraph ==
    [][\A id \in 1..MaxJobs :
         LET s == StatusOf(id)
             t == StatusOf(id)'
         IN /\ (s = "absent" /\ t # "absent") => t = "queued"
            /\ (s # "absent" /\ t # "absent" /\ s # t) =>
                 \/ <<s, t>> \in StatusEdges
                 \/ t = "summarizing" /\ Rec(id).transcript # ""]_vars

\* C2: at most one pipeline run is active for a job id at any time
C2_OneActiveRun ==
    \A id \in 1..MaxJobs :
      Cardinality({p \in 1..MaxEvents : ActiveRun(p) /\ procs[p].jid = id}) <= 1

\* C3: run_job for a job whose status is running, downloading, transcribing
\* or summarizing changes no field of any job, not the selection, the files
\* or the persisted snapshot, and its generator ends before any stage
C3_RunJobNoOp ==
    [][\A id \in 1..MaxJobs :
         (StatusOf(id) \in ActiveStatuses /\ RunJob(id)) =>
            /\ UNCHANGED <<jobs, heap, disk, files, current_job_id>>
            /\ procs' = [procs EXCEPT ![nev + 1] = Refused("run", id)]]_vars

\* a second run_job call for a job that add_job's run is still driving
C3_Witness ==
    /\ procs[1].origin = "add_job" /\ ActiveRun(1)
    /\ StatusOf(procs[1].jid) = "downloading"
    /\ procs[2] = Refused("run", procs[1].jid)

\* C4: when a stage of a run raises, the job's status becomes error, its
\* error field is set, the last log line is the ERROR line, the run is over,
\* and file_path, transcript, summary and title are as they were
C4_StageRaises ==
    [][\A p \in 1..MaxEvents, id \in 1..MaxJobs :
         (/\ ActiveRun(p) /\ procs[p].jid = id
          /\ procs'[p].exit = "raised" /\ Present(id)') =>
            LET old == Rec(id)
                new == Rec(id)'
            IN /\ new.status = "error"
               /\ new.error \in {E_HTTP, E_CTYPE, E_STREAM, E_TRANSCRIBE,
                                 E_SUMMARIZE, E_NOFILE}
               /\ new.logs # <<>> /\ new.logs[Len(new.logs)] = "ERROR"
               /\ procs'[p].pc = "done"
               /\ new.file_path = old.file_path /\ new.transcript = old.transcript
               /\ new.summary = old.summary /\ new.title = old.title]_vars

\* C5: retry_current on a completed job leaves it queued with logs,
\* transcript, summary and error empty and id, url, created_at as they were,
\* the new run not yet started
C5_RetryCurrentResets ==
    [][\A id \in 1..MaxJobs :
         (current_job_id = id /\ StatusOf(id) = "completed" /\ RetryCurrent) =>
            LET old == Rec(id)
                new == Rec(id)'
            IN /\ new.status = "queued" /\ new.logs = <<>> /\ new.transcript = ""
               /\ new.summary = 0 /\ new.error = ""
               /\ new.id = old.id /\ new.url = old.url
               /\ new.created_at = old.created_at
               /\ procs'[nev + 1].pc = "call_run"
               /\ disk' = Save(jobs', heap')]_vars

\* add_job's run has returned and retry_current has reset the job
C5_Witness ==
    /\ procs[1].exit = "returned"
    /\ procs[2].pc = "call_run" /\ procs[2].origin = "retry_current"
    /\ Rec(procs[2].jid).status = "queued" /\ Rec(procs[2].jid).logs = <<>>

\* C6: retry_current and retry_job on a job whose status is running,
\* downloading, transcribing or summarizing leave the job as it was and
\* start no run
C6_RetryGuarded ==
    [][\A id \in 1..MaxJobs :
         (/\ StatusOf(id) \in ActiveStatuses
          /\ RetryJob(id) \/ (current_job_id = id /\ RetryCurrent)) =>
            /\ Rec(id)' = Rec(id)
            /\ procs'[nev + 1].pc # "call_run"]_vars

\* C7: during a rerun started by retry_job, no step of the rerun turns a
\* non-empty summary into an empty one
C7_SummaryKept ==
    [][\A p \in 1..MaxEvents, id \in 1..MaxJobs :
         (/\ procs[p].kind = "run" /\ procs[p].origin = "retry_job"
          /\ procs[p].jid = id /\ Steps(p)
          /\ Rec(id).summary # 0 /\ Present(id)') =>
            Rec(id)'.summary # 0]_vars

\* a step of one of the regenerate handlers
RegenStep ==
    \/ RegenerateSummary
    \/ \E id \in 1..MaxJobs : RegenerateSummaryFor(id)
    \/ \E p \in 1..MaxEvents : RegenSummarize(p) \/ RegenReturn(p)

\* C8: no step of regenerate_summary / regenerate_summary_for changes the
\* transcript, resolved_url or file_path of any job
C8_RegenFrame ==
    [][RegenStep =>
         /\ jobs' = jobs
         /\ \A id \in 1..MaxJobs :
              /\ Rec(id)'.transcript = Rec(id).transcript
              /\ Rec(id)'.resolved_url = Rec(id).resolved_url
              /\ Rec(id)'.file_path = Rec(id).file_path]_vars

\* a regenerate has returned for a job that has a transcript and a file
C8_Witness ==
    /\ procs[2] = Finished("regen", "returned")
    /\ Rec(1).transcript # "" /\ Rec(1).file_path # NoFile /\ Rec(1).summary # 0

\* C9: regenerate on a job with a transcript sets status summarizing and ends
\* with status completed or error; on a job without one it only appends the
\* 'No transcript available' line
C9_Regenerate ==
    [][/\ \A id \in 1..MaxJobs :
            (Present(id) /\ (RegenerateSummaryFor(id)
                             \/ (current_job_id = id /\ RegenerateSummary))) =>
               IF Rec(id).transcript # ""
               THEN Rec(id)'.status = "summarizing"
               ELSE /\ Rec(id)' = [Rec(id) EXCEPT !.logs =
                          Append(@, "No transcript available -> cannot summarize")]
                    /\ UNCHANGED <<jobs, files, current_job_id>>
                    /\ procs'[nev + 1].pc = "done"
       /\ \A p \in 1..MaxEvents, id \in 1..MaxJobs :
            (/\ procs[p].kind = "regen" /\ procs[p].pc # "done" /\ procs[p].jid = id
             /\ procs'[p].pc = "done" /\ Present(id)') =>
               Rec(id)'.status \in {"completed", "error"}]_vars

\* C10: without the transcription credential the transcriber returns None
\* without raising, the summarizer is never entered by a run, and a run whose
\* download succeeded ends with status completed, no transcript, no summary
C10_Unconfigured ==
    [][~env.asm =>
         \A p \in 1..MaxEvents, id \in 1..MaxJobs :
           /\ At(p, "run", {"tr_skip"}) /\ Steps(p) => procs'[p].pc = "transcribed"
           /\ ~At(p, "run", {"tr_upload", "sm_skip", "sm_call"})
           /\ (/\ At(p, "run", {"downloaded", "tr_skip", "transcribed", "summarized"})
               /\ procs[p].jid = id
               /\ procs'[p].pc = "done" /\ Present(id)') =>
                 /\ procs'[p].exit = "returned"
                 /\ Rec(id)'.status = "completed"
                 /\ Rec(id)'.transcript = ""
                 /\ Rec(id)'.summary = 0]_vars

\* C11: once the summarizer is past its opening line every outcome (not
\* configured, HTTP >= 400, empty content, exception in the request or the
\* stream) makes it return, never raise; and a run that has a transcript
\* and whose summarizer returned nothing ends with status completed and an
\* empty summary
C11_SoftSummarizer ==
    [][\A p \in 1..MaxEvents, id \in 1..MaxJobs :
         (procs[p].kind = "run" /\ procs[p].jid = id /\ Steps(p)) =>
            /\ procs[p].pc \in {"sm_skip", "sm_call"} => procs'[p].pc = "summarized"
            /\ (/\ procs[p].pc = "summarized"
                /\ heap[procs[p].j].transcript # ""
                /\ heap[procs[p].j].summary = 0
                /\ Present(id)') =>
                  /\ procs'[p].exit = "returned"
                  /\ Rec(id)'.status = "completed"
                  /\ Rec(id)'.summary = 0]_vars

\* a delete handler is invoked for job id
Deletes(id) == (current_job_id = id /\ DeleteCurrent) \/ DeleteById(id)

\* C14: delete leaves the job absent from the list, and once a created job
\* is absent and no file with its id prefix exists, both stay so in every
\* later state
C14_DeleteIsFinal ==
    [][\A id \in 1..MaxJobs :
         /\ Deletes(id) => ~Present(id)'
         /\ (id <= issued /\ ~Present(id) /\ Glob(files, id) = {}) =>
               (~Present(id)' /\ Glob(files', id) = {})]_vars

\* C15: the record leaves the list only in delete's last step, after the
\* recorded file and the listing of id-prefixed files have been attempted,
\* and that step persists the list; no failed removal stops the delete
C15_DeleteBestEffort ==
    [][/\ \A id \in 1..MaxJobs :
            (Present(id) /\ ~Present(id)') =>
               /\ st.stage = "delete" /\ st.pc = "record" /\ st.jid = id
               /\ st.listed /\ st.todo = {}
               /\ Rec(id).file_path \in files => Rec(id).file_path \in st.tried
               /\ disk' = Save(jobs', heap')
       /\ st'.stage = "delete" => st'.pc # "raised"
       /\ (st.stage = "delete" /\ st.pc \in {"recorded", "glob", "unlink"}) =>
             (jobs' = jobs /\ disk' = disk)]_vars

\* the delete has ended, the record is gone and persisted as gone, although
\* a removal failed and left a file of the job behind
C15_Witness ==
    /\ st.stage = "delete" /\ st.pc = "done" /\ st.jid = 1
    /\ ~Present(1) /\ disk = Save(jobs, heap)
    /\ Glob(files, 1) # {}

C17_SnapshotCurrent ==
    /\ (disk.exists \/ jobs # <<>>) => disk = Save(jobs, heap)
    /\ \A p \in 1..MaxEvents :
         (ActiveRun(p) /\ Present(procs[p].jid)) =>
            /\ Rec(procs[p].jid) = heap[procs[p].j]
            /\ \E i \in 1..Len(disk.content) : disk.content[i] = heap[procs[p].j]

\* C18: while a _save has failed and none has succeeded since, a reload
\* (hydrate, load_job, init_job_view) leaves every record of the collection
\* in memory as it was
C18_MemoryAuthoritative ==
    [][(/\ st.stage = "persist"
        /\ st.unsaved
        /\ st'.op \in {"hydrate", "load_job", "init_job_view"}
        /\ nev' # nev) =>
          Save(jobs', heap').content = Save(jobs, heap).content]_vars

\* C19: a download that has returned with a non-empty file has logged a last
\* progress line whose byte count is the size of the file it wrote
C19_FinalProgressLine ==
    (st.stage = "download" /\ st.pc = "returned" /\ st.size > 0) =>
       /\ st.lines # <<>>
       /\ st.lines[Len(st.lines)][1] = st.size

\* C20: of two successive progress lines of one download the later one
\* carries at least as many bytes and was logged more than 100 ms after the
\* earlier one
C20_ProgressMonotoneThrottled ==
    st.stage = "download" =>
       \A i \in 1..(Len(st.lines) - 1) :
          /\ st.lines[i + 1][1] >= st.lines[i][1]
          /\ st.lines[i + 1][2] - st.lines[i][2] > Throttle

\* a finished download with two progress lines and a chunk in between that
\* arrived too soon to be logged
C20_Witness ==
    /\ st.stage = "download" /\ st.pc = "returned"
    /\ Len(st.lines) = 2
    /\ st.chunks = 3
    /\ st.lines[2][1] - st.lines[1][1] > MaxChunkSize

\* the lines that name a winning strategy
WinLines ==
    {"Plaud API resolved (temp)", "Plaud API resolved (regex)",
     "Plaud content API resolved", "Plaud resolved (html)",
     "Plaud resolved (next)", "Plaud resolved (json)"}

NoStrategyWon == \A i \in 1..Len(st.lines) : st.lines[i][1] \notin WinLines

\* C12: the resolver never raises, and what it returns is a non-empty URL,
\* the original one when no strategy produced a URL
C12_ResolverTotal ==
    st.stage = "resolve" =>
      /\ st.pc \in {"call", "temp", "content", "page", "returned"}
      /\ st.pc = "returned" =>
           /\ st.val # ""
           /\ NoStrategyWon => st.val = st.url

\* both API calls and the page fetch have failed and the resolver has returned
C12_Witness ==
    /\ st.stage = "resolve" /\ st.pc = "returned"
    /\ st.calls = <<"share-file-temp", "share-content", "page">>
    /\ Len(st.lines) = 4
    /\ \A i \in 2..4 : st.lines[i][2] \in Failures
    /\ st.val = st.url

\* C13: for a URL whose host is not the Plaud domain the resolver makes no
\* request, emits no line and returns the URL unchanged
C13_ForeignUrlUntouched ==
    (st.stage = "resolve" /\ ~HostIsPlaud(st.url)) =>
      /\ st.calls = <<>> /\ st.lines = <<>>
      /\ st.pc \in {"call", "returned"}
      /\ st.pc = "returned" => st.val = st.url

\* C21: a download (of a run that is the only one in progress) is refused for
\* its content type only when the URL holds no audio extension, no file is
\* created by the refusal, and the job is then in error with an empty
\* file_path
C21_ContentTypeError ==
    [][\A p \in 1..MaxEvents, id \in 1..MaxJobs :
         (/\ At(p, "run", {"dl_begin"}) /\ procs[p].jid = id /\ Steps(p)
          /\ procs[p].j = GetJob(jobs, heap, id)
          /\ \A q \in 1..MaxEvents : q # p => procs[q].pc \in {"none", "done"}
          /\ procs'[p].exit = "raised"
          /\ Rec(id)'.error = E_CTYPE) =>
            /\ UrlExt(procs[p].resolved) = ""
            /\ files' = files
            /\ Rec(id)'.status = "error"
            /\ Rec(id)'.file_path = NoFile]_vars

\* a text without the blanks at its start
RECURSIVE TrimHead(_)
TrimHead(s) == IF s # <<>> /\ Head(s) = " " THEN TrimHead(Tail(s)) ELSE s

\* a text without the blanks at its end
RECURSIVE TrimTail(_)
TrimTail(s) ==
    IF s # <<>> /\ s[Len(s)] = " " THEN TrimTail(SubSeq(s, 1, Len(s) - 1)) ELSE s

\* the texts of the events seen, one after the other
RECURSIVE Joined(_)
Joined(evs) == IF evs = <<>> THEN <<>> ELSE evs[1].text \o Joined(Tail(evs))

\* C22: when every event of a finished stream was an output_text.delta or a
\* response.output_text.delta, the summary is their deltas joined in arrival
\* order and stripped of surrounding whitespace (None when that is empty)
C22_DeltasConcatenated ==
    (/\ st.stage = "stream" /\ st.pc = "returned"
     /\ st.line \in {"GPT call complete", "GPT returned empty content"}
     /\ \A i \in 1..Len(st.seen) : st.seen[i].kind \in DeltaKinds) =>
        /\ st.val = TrimTail(TrimHead(Joined(st.seen)))
        /\ st.none <=> TrimTail(TrimHead(Joined(st.seen))) = <<>>

\* deltas "a " then " a" of both delta kinds gave "a  a"
C22_Witness ==
    /\ st.stage = "stream" /\ st.pc = "returned"
    /\ Len(st.seen) = 3
    /\ st.seen[1] = [kind |-> "output_text.delta", text |-> <<" ", "a">>]
    /\ st.seen[2] = [kind |-> "response.output_text.delta", text |-> <<"a", " ">>]
    /\ st.seen[3] = [kind |-> "output_text.delta", text |-> <<" ">>]
    /\ st.val = <<"a", "a">>

\* C23: an event with an output_text (at top level or under response) that
\* holds more than whitespace leaves the buffer holding exactly that value
C23_OutputTextReplaces ==
    [][(/\ st.stage = "stream" /\ st'.stage = "stream"
        /\ st.pc = "lines"
        /\ Len(st'.seen) = Len(st.seen) + 1
        /\ st'.seen[Len(st'.seen)].kind \in ReplaceKinds
        /\ Strip(st'.seen[Len(st'.seen)].text) # <<>>) =>
          st'.content = st'.seen[Len(st'.seen)].text]_vars

\* C24: no two records of the job list have the same id
C24_IdsUnique ==
    \A i, k \in 1..Len(jobs) : heap[jobs[i]].id = heap[jobs[k]].id => i = k

Extends(new, old) == Len(new) >= Len(old) /\ SubSeq(new, 1, Len(old)) = old

IdsOf(js, h) == [i \in 1..Len(js) |-> h[js[i]].id]

Kept(ids, keep) == SelectSeq(ids, LAMBDA x : x \in keep)

Range(q) == {q[i] : i \in 1..Len(q)}

\* C26: after every step the list is ordered newest first, a job that is new
\* in the list is at its head, and the jobs that stay keep their order
C26_NewestFirst ==
    [][LET old == IdsOf(jobs, heap)
           new == IdsOf(jobs', heap')
           both == Range(old) \cap Range(new)
       IN /\ Kept(new, both) = Kept(old, both)
          /\ \A i \in 1..Len(new) : new[i] \notin Range(old) => i = 1
          /\ \A i, k \in 1..Len(new) :
               i < k => heap'[jobs'[i]].created_at >= heap'[jobs'[k]].created_at]_vars

\* two jobs, the newer one first, in a list that hydrate has reloaded
C26_Witness ==
    /\ IdsOf(jobs, heap) = <<2, 1>>
    /\ jobs = <<3, 4>>

\* C27: a run whose job has been deleted, when it is resumed, starts no
\* stage: it ends, and leaves the files, the snapshot and the list alone
C27_DeleteCancelsRun ==
    [][\A p \in 1..MaxEvents, id \in 1..MaxJobs :
         (/\ ActiveRun(p) /\ procs[p].jid = id
          /\ ~Present(id)
          /\ Steps(p)) =>
            /\ procs'[p].pc = "done"
            /\ UNCHANGED <<jobs, disk, files>>]_vars

\* a regenerate generator between its first yield and its end
ActiveRegen(p) == procs[p].kind = "regen" /\ procs[p].pc \notin {"none", "done"}

\* C28: while a regenerate of a job is in progress, no pipeline run and no
\* other regenerate of that job is in progress
C28_OneStageOperation ==
    \A p, q \in 1..MaxEvents :
       (p # q /\ ActiveRegen(p) /\ procs[q].jid = procs[p].jid) =>
          ~(ActiveRun(q) \/ ActiveRegen(q))

\* the job a step of generator p works on
JobOfStep(p) == IF procs[p].jid # 0 THEN procs[p].jid ELSE procs'[p].jid

\* what a run of job id that is the only run can leave behind
SoloEnds(id) ==
    LET transcripts == IF env.asm THEN {"", "transcript"} ELSE {""}
    IN {r \in [status : {"completed", "error"}, transcript : transcripts,
               summary : {0, id}] :
          /\ r.summary # 0 => (r.transcript # "" /\ env.gpt /\ r.status = "completed")}

\* two handlers have been invoked, both add_job, and both runs are over
BothRunsOver ==
    /\ nev = 2 /\ issued = 2
    /\ \A p \in 1..2 : procs[p].pc = "done"

\* C29: a step of a run or regenerate of one job leaves every other listed
\* job's record as it was, and when two jobs have been added and both runs
\* are over, each job has a status, transcript and summary its run could
\* have left alone (the summary its own summarizer call returned)
C29_RunsIndependent ==
    /\ [][\A p \in 1..MaxEvents, b \in 1..MaxJobs :
            (Steps(p) /\ b # JobOfStep(p) /\ Present(b)) =>
               (Present(b)' /\ Rec(b)' = Rec(b))]_vars
    /\ [](BothRunsOver =>
            \A id \in 1..2 :
               /\ Present(id)
               /\ [status |-> Rec(id).status, transcript |-> Rec(id).transcript,
                   summary |-> Rec(id).summary] \in SoloEnds(id))

\* two jobs added one after the other, their runs interleaved, both
\* completed, each with the summary of its own run
C29_Witness ==
    /\ BothRunsOver
    /\ Rec(1).status = "completed" /\ Rec(1).summary = 1
    /\ Rec(2).status = "completed" /\ Rec(2).summary = 2
    /\ Len(Rec(1).logs) > 2

IsPrefix(a, b) == Len(a) <= Len(b) /\ SubSeq(b, 1, Len(a)) = a

\* the line the resolver logged last
LastLine == st.lines[Len(st.lines)][1]

\* C30: the requests the resolver has made are an initial part of temp API,
\* content API, share page (of the share page alone when the URL holds no
\* share token); it returns at the first strategy that yields a URL, and on
\* the page the raw URLs come before the page data and those before the JSON
\* keys
C30_StrategyOrder ==
    (st.stage = "resolve" /\ IsPlaud(st.url)) =>
       /\ IF ShareToken(st.url) # ""
          THEN IsPrefix(st.calls, <<"share-file-temp", "share-content", "page">>)
          ELSE IsPrefix(st.calls, <<"page">>)
       /\ (st.pc = "returned" /\ ~NoStrategyWon) =>
            /\ LastLine \in {"Plaud API resolved (temp)", "Plaud API resolved (regex)"}
                  <=> st.calls = <<"share-file-temp">>
            /\ LastLine = "Plaud content API resolved"
                  <=> st.calls = <<"share-file-temp", "share-content">>
            /\ LastLine = "Plaud resolved (html)" <=> "html" \in st.page
            /\ LastLine = "Plaud resolved (next)"
                  <=> ("next" \in st.page /\ "html" \notin st.page)
            /\ LastLine = "Plaud resolved (json)" <=> st.page = {"json"}
       /\ (st.pc = "returned" /\ NoStrategyWon) =>
            (st.page = {} /\ st.calls[Len(st.calls)] = "page")

\* both APIs gave nothing, the page held a URL in its page data and one
\* under a JSON key, and the page data won
C30_Witness ==
    /\ st.stage = "resolve" /\ st.pc = "returned"
    /\ st.calls = <<"share-file-temp", "share-content", "page">>
    /\ st.page = {"next", "json"}
    /\ LastLine = "Plaud resolved (next)"

\* C31: once the resolver has logged its opening line, every request it has
\* made and finished has left a line of its own: a failure line, a line that
\* the strategy found nothing, or the line naming the winner
C31_EveryStrategyLogs ==
    (st.stage = "resolve" /\ IsPlaud(st.url) /\ st.pc # "call") =>
       Len(st.lines) = 1 + Len(st.calls)

\* the first n requests of a transcription: upload, create, then polls
TranscribeOrder(n) ==
    [i \in 1..n |-> IF i = 1 THEN "upload" ELSE IF i = 2 THEN "create" ELSE "poll"]

\* C32: a configured transcription uploads, then creates the job, then
\* polls; every status a poll returned was logged, in order; only the last
\* status is completed or error, after it no poll is made, error raises with
\* the service's message; and a transcription that has started ends
C32_TranscribeProtocol ==
    /\ [](( st.stage = "transcribe" /\ ~st.none) =>
            /\ st.calls = TranscribeOrder(Len(st.calls))
            /\ \A i \in 1..Len(st.seen) :
                 /\ Len(st.lines) >= 3 + i
                 /\ st.lines[3 + i] = <<"transcribe: status=", st.seen[i]>>
                 /\ i < Len(st.seen) => st.seen[i] \notin {"completed", "error"}
            /\ st.pc = "poll" =>
                 \A i \in 1..Len(st.seen) : st.seen[i] \notin {"completed", "error"}
            /\ (st.seen # <<>> /\ st.seen[Len(st.seen)] = "completed") =>
                 st.pc = "returned"
            /\ (st.seen # <<>> /\ st.seen[Len(st.seen)] = "error") =>
                 /\ st.pc = "raised"
                 /\ st.err[1] = "transcription failed: "
                 /\ st.err[2] \in ServiceErrors)
    /\ (st.stage = "transcribe") ~> (st.stage = "transcribe" /\ st.pc \in {"returned", "raised"})

\* two polls found the job unfinished, the third reported error with the
\* service's message, and the generator raised after logging all three
C32_Witness ==
    /\ st.stage = "transcribe" /\ st.pc = "raised"
    /\ st.seen = <<"queued", "processing", "error">>
    /\ st.err = <<"transcription failed: ", "bad audio">>
    /\ Len(st.lines) = 6

\* C33: a line without the data: prefix or with a payload that is not JSON
\* leaves the buffer as it was; when the body ends or [DONE] arrives, the
\* buffer becomes its own trimmed value whatever follows the marker, and the
\* result is None exactly when that trimmed value is empty
C33_ParsingRules ==
    [][(st.stage = "stream" /\ st.pc = "lines" /\ st'.stage = "stream") =>
         /\ (/\ Len(st'.seen) = Len(st.seen) + 1
             /\ st'.seen[Len(st'.seen)].kind \in SkipKinds) =>
               st'.content = st.content
         /\ (st'.pc = "returned" /\ st'.line \in {"GPT call complete", "GPT returned empty content"}) =>
               /\ st'.content = TrimTail(TrimHead(st.content))
               /\ st'.none <=> TrimTail(TrimHead(st.content)) = <<>>
               /\ ~st'.none => st'.val = TrimTail(TrimHead(st.content))]_vars

\* the delta "a " was followed by a line that is not JSON and one without
\* the prefix, then by [DONE] with another delta behind it: the result is "a"
C33_Witness ==
    /\ st.stage = "stream" /\ st.pc = "returned"
    /\ st.marker /\ st.tail = <<"a">>
    /\ Len(st.seen) = 3
    /\ st.seen[1] = [kind |-> "output_text.delta", text |-> <<"a", " ">>]
    /\ st.seen[2] = [kind |-> "malformed", text |-> <<"a">>]
    /\ st.seen[3] = [kind |-> "noprefix", text |-> <<"a">>]
    /\ st.val = <<"a">> /\ ~st.none

\* C34: the title returned for a summary that is not empty is not empty and
\* has at most 60 characters
C34_TitleNeverEmpty ==
    (st.stage = "title" /\ st.pc = "returned" /\ st.summary # <<>>) =>
        /\ st.title # <<>>
        /\ Len(st.title) <= 60

\* the generators at work on job id: pipeline runs past their guard and
\* regenerates that have not ended
Drivers(id) ==
    {p \in 1..MaxEvents : procs[p].jid = id /\ (ActiveRun(p) \/ ActiveRegen(p))}

\* C35: a job that the list shows as running, downloading, transcribing or
\* summarizing has a pipeline run or a regenerate at work on it
C35_ActiveStatusIsDriven ==
    \A id \in 1..MaxJobs :
       (Present(id) /\ Rec(id).status \in ActiveStatuses) => Drivers(id) # {}

\* C36: a pipeline run at work on a job leads to the list showing that job
\* as completed or as error
C36_RunReachesStore ==
    \A id \in 1..MaxJobs :
       (Present(id) /\ \E p \in 1..MaxEvents : ActiveRun(p) /\ procs[p].jid = id)
          ~> (~Present(id) \/ Rec(id).status \in {"completed", "error"})

\* C37: after every step of a regenerate that is the only generator at
\* work, its job has a message in its error field exactly when its status
\* is error
C37_ErrorIffStatusError ==
    [][\A p \in 1..MaxEvents, id \in 1..MaxJobs :
         (/\ Steps(p) /\ procs'[p].kind = "regen"
          /\ \A q \in 1..MaxEvents \ {p} : procs[q].pc \in {"none", "done"}
          /\ id \in {procs[p].jid, procs'[p].jid}
          /\ Present(id)') =>
            (Rec(id)'.error # "" <=> Rec(id)'.status = "error")]_vars

\* the files named after job id
Owned(f, id) == {x \in f : x[1] = id}

\* C38: a job that a step leaves in the list keeps its audio files and its
\* file_path through that step
C38_OthersKeepTheirFiles ==
    [][\A id \in 1..MaxJobs :
         (Present(id) /\ Present(id)') =>
            /\ Owned(files, id) \subseteq files'
            /\ Rec(id)'.file_path = Rec(id).file_path]_vars

\* C39: a record leaves the list only in a step of a delete handler invoked
\* for its id
C39_OnlyDeleteRemoves ==
    [][\A id \in 1..MaxJobs :
         (Present(id) /\ ~Present(id)') => Deletes(id)]_vars

\* C40: a job of the list whose summary is empty has an empty title
C40_TitleFollowsSummary ==
    \A id \in 1..MaxJobs :
       (Present(id) /\ Rec(id).summary = 0) => Rec(id).title = NoTitle

====
